---- MODULE Spec2Model ----
(***************************************************************************)
(* Depth-Cloud: the raster sampler (resizeImage), the point-cloud          *)
(* reconstructor (generatePointCloudFromImages) and the synchronous tail   *)
(* of the application's build3DModel, as state machines.                   *)
(*                                                                         *)
(* Numbers.  The code computes in IEEE doubles; the model computes in      *)
(* exact rationals, each quantity kept as an integer numerator over a      *)
(* fixed denominator:                                                      *)
(*   sampling factor, random draws : quarters        (FactorDen = 4)       *)
(*   positions                     : 1/1020          (PosDen = 4 * 255)    *)
(*   colours                       : 1/4080000       (ColDen)              *)
(* On 8-bit channel values and the raster sizes of the model the doubles   *)
(* floor and round to the same integers as the rationals: Math.floor(c /   *)
(* 255 * 8) hits an integer only at c = 0 and c = 255, and the product     *)
(* (d / 255 - 0.5) * depthScale hits a rounding tie only at d = 0 and      *)
(* d = 255 for rasters whose longer side is below 6.                       *)
(***************************************************************************)
EXTENDS Integers, Sequences, FiniteSets, TLC

\* ------------------------------------------------------------ bounds ----
\* Longest raster side and largest pixel count of a canvas handed to the
\* reconstructor.
MaxDim == 4
MaxPixels == 4
\* Longest side of a source image and largest maxSize given to resizeImage.
MaxSide == 5

\* ------------------------------------------------- program constants ----
\* 8-bit channel maximum (the divisor of depthData[i] / 255).
MaxChannel == 255
\* const levels = 8.0
levels == 8
\* targetRes of point-cloud mode
PointsRes == 1024
\* useState<number>(64): the initial voxelResolution
VoxelResDefault == 64
\* the voxel resolution slider's minimum
VoxelResMin == 32

\* ------------------------------------------------------------- units ----
FactorDen == 2 * 2
PosDen == 2 * 2 * MaxChannel
ColDen == 16 * 1000 * MaxChannel
\* samplingFactor = 1.0
FullDensity == 1 * FactorDen

Max(a, b) == IF a >= b THEN a ELSE b
Min(a, b) == IF a <= b THEN a ELSE b

\* Math.floor(n / den) and Math.round(n / den) of the rational n / den,
\* den > 0.  Math.round rounds a tie towards +Infinity.
MathFloor(n, den) == n \div den
MathRound(n, den) == (2 * n + den) \div (2 * den)

\* ------------------------------------------------------------ rasters ----
\* A raster (HTMLImageElement or HTMLCanvasElement): width, height and the
\* row-major RGBA bytes, four per pixel, as ImageData.data holds them.
\* The rasters the inputs are drawn from: pixel k (row-major, from 0) has
\* red (base + k * step) mod 256, green and blue derived from it; base 255
\* with step 0 is the uniform (255, 0, 0) raster.  gray gives R = G = B.
RasterData(w, h, base, step, gray) ==
    [j \in 1..(4 * w * h) |->
        LET k == (j - 1) \div 4
            c == (j - 1) % 4
            v == base + k * step
        IN  IF c = 3 THEN MaxChannel
            ELSE IF gray \/ c = 0 THEN v % (MaxChannel + 1)
            ELSE ((c + 1) * (v + 1)) % (MaxChannel + 1)]

Raster(w, h, base, step, gray) ==
    [width |-> w, height |-> h, data |-> RasterData(w, h, base, step, gray)]

\* --------------------------------------------------------- resizeImage ----
\* The scaled width and height before flooring, as numerators over den:
\* only a side longer than maxSize is scaled, and a square or portrait
\* image takes the else branch.
\* Mutant: the longer side is always brought to maxSize, upscaling included.
resizeScaled_alwaysFit(width, height, maxSize) ==
    IF width > height
    THEN [w |-> maxSize * width, h |-> height * maxSize, den |-> width]
    ELSE IF height = 0
         THEN [w |-> 0, h |-> 0, den |-> 1]
         ELSE [w |-> width * maxSize, h |-> maxSize * height, den |-> height]

resizeScaled(width, height, maxSize) ==
    IF width > height
    THEN IF width > maxSize
         THEN [w |-> maxSize * width, h |-> height * maxSize, den |-> width]
         ELSE [w |-> width, h |-> height, den |-> 1]
    ELSE IF height > maxSize
         THEN [w |-> width * maxSize, h |-> maxSize * height, den |-> height]
         ELSE [w |-> width, h |-> height, den |-> 1]

\* canvas.width = Math.floor(width); canvas.height = Math.floor(height)
resizeDims(width, height, maxSize) ==
    LET s == resizeScaled(width, height, maxSize)
    IN  [width |-> MathFloor(s.w, s.den), height |-> MathFloor(s.h, s.den)]

\* ctx.drawImage(img, 0, 0, canvas.width, canvas.height): at the image's own
\* size the pixels are copied; at another size the browser's smoothing
\* filter decides them, so the resampled bytes are an input of the call.
drawImage(img, cw, ch, resampled) ==
    IF cw = img.width /\ ch = img.height THEN img.data ELSE resampled

resizeImage(img, maxSize, resampled) ==
    LET d == resizeDims(img.width, img.height, maxSize)
    IN  [width |-> d.width, height |-> d.height,
         data |-> drawImage(img, d.width, d.height, resampled)]

\* The pixel contents a resize of img to maxSize can produce.
ResampledChoices(img, maxSize) ==
    LET d == resizeDims(img.width, img.height, maxSize)
    IN  IF d.width = img.width /\ d.height = img.height
        THEN {img.data}
        ELSE {RasterData(d.width, d.height, b, 0, FALSE) : b \in {0, MaxChannel}}

\* ---------------------------------------- generatePointCloudFromImages ----
\* ctx.getImageData(0, 0, sw, sh).data of a canvas: the canvas's pixels, and
\* transparent black for the pixels of the rectangle outside the canvas.
getImageData(canvas, sw, sh) ==
    [j \in 1..(4 * sw * sh) |->
        LET k == (j - 1) \div 4
            x == k % sw
            y == k \div sw
        IN  IF x < canvas.width /\ y < canvas.height
            THEN canvas.data[4 * (y * canvas.width + x) + ((j - 1) % 4) + 1]
            ELSE 0]

\* if (samplingFactor < 1.0 && !isVoxelMode) { if (Math.random() > samplingFactor) continue; }
\* r is the value Math.random() returns for this pixel.
\* Mutant: the draw is compared with half the factor, at every density.
samplingSkips_halfThreshold(samplingFactor, isVoxelMode, r) ==
    /\ ~isVoxelMode
    /\ 2 * r > samplingFactor

\* Mutant: the factor is taken as the probability of skipping a pixel.
samplingSkips_skipProbability(samplingFactor, isVoxelMode, r) ==
    /\ ~isVoxelMode
    /\ r > FullDensity - samplingFactor

\* Mutant: the gate forgets the voxel mode.
samplingSkips_ignoresVoxel(samplingFactor, isVoxelMode, r) ==
    /\ samplingFactor < FullDensity
    /\ r > samplingFactor

samplingSkips(samplingFactor, isVoxelMode, r) ==
    /\ samplingFactor < FullDensity
    /\ ~isVoxelMode
    /\ r > samplingFactor

\* const depthScale = Math.max(width, height) * 0.5, as a numerator over 2.
\* Mutant: the factor 0.5 is dropped.
depthScale2_unhalved(width, height) == 2 * Max(width, height)

depthScale2(width, height) == Max(width, height)

\* pX = x - cx and pY = -(y - cy), cx = width / 2, cy = height / 2, over PosDen.
posX(x, width) == (2 * x - width) * (PosDen \div 2)
\* Mutant: Y is not inverted.
posY_notInverted(y, height) == (2 * y - height) * (PosDen \div 2)

posY(y, height) == -((2 * y - height) * (PosDen \div 2))

\* pZ = (depthData[i] / 255 - 0.5) * depthScale over PosDen; voxel mode
\* snaps it with Math.round.
posZ(d, width, height, isVoxelMode) ==
    LET pZ == ((2 * d - MaxChannel) * depthScale2(width, height) * PosDen)
                \div (2 * 2 * MaxChannel)
    IN  IF isVoxelMode THEN MathRound(pZ, PosDen) * PosDen ELSE pZ

\* Math.floor(c / 255 * levels): the posterized channel, as a numerator over
\* levels.
posterize(c) == MathFloor(c * levels, MaxChannel)

\* Math.max(0, Math.min(1, v)) over ColDen.
clampColor(v) == Max(0, Min(ColDen, v))

\* The colour written for the channel values <<r, g, b>> of a pixel, over
\* ColDen.  Voxel mode: posterize, then move each channel away from the
\* luminance 0.299 r + 0.587 g + 0.114 b by satBoost = 1.3.  Point-cloud
\* mode: multiply by 1.3.  Both clamp to [0, 1].
pixelColor(rgb, isVoxelMode) ==
    IF isVoxelMode
    THEN LET q == [c \in 1..3 |-> posterize(rgb[c])]
             \* gray over levels * 1000
             gray == 299 * q[1] + 587 * q[2] + 114 * q[3]
             \* gray + (q - gray) * 1.3 = (13 q - 3 gray) / 10
             unit == ColDen \div (levels * 1000 * 10)
         IN  [c \in 1..3 |-> clampColor((13 * 1000 * q[c] - 3 * gray) * unit)]
    ELSE [c \in 1..3 |-> clampColor(rgb[c] * 13 * (ColDen \div (MaxChannel * 10)))]

\* Mutant: pointCount++ is forgotten.
writePoint_noCount(acc, pos, col) ==
    LET p == acc.pIndex
    IN  [positions |-> [acc.positions EXCEPT
                           ![p + 1] = pos[1], ![p + 2] = pos[2], ![p + 3] = pos[3]],
         colors |-> [acc.colors EXCEPT
                           ![p + 1] = col[1], ![p + 2] = col[2], ![p + 3] = col[3]],
         pIndex |-> p + 3,
         pointCount |-> acc.pointCount]

\* positions[pIndex..pIndex+2] and colors[pIndex..pIndex+2] written, then
\* pIndex += 3 and pointCount++.
writePoint(acc, pos, col) ==
    LET p == acc.pIndex
    IN  [positions |-> [acc.positions EXCEPT
                           ![p + 1] = pos[1], ![p + 2] = pos[2], ![p + 3] = pos[3]],
         colors |-> [acc.colors EXCEPT
                           ![p + 1] = col[1], ![p + 2] = col[2], ![p + 3] = col[3]],
         pIndex |-> p + 3,
         pointCount |-> acc.pointCount + 1]

\* The loop body after the sampling gate, for the pixel (x, y).
emitPixel(acc, x, y, width, height, colorData, depthData, isVoxelMode) ==
    LET i == (y * width + x) * 4
        rgb == <<colorData[i + 1], colorData[i + 2], colorData[i + 3]>>
    IN  writePoint(acc,
                   <<posX(x, width), posY(y, height),
                     posZ(depthData[i + 1], width, height, isVoxelMode)>>,
                   pixelColor(rgb, isVoxelMode))

\* for (let x = 0; x < width; x++) { ... }: one row.  ctx holds what the
\* loops read and never write.  Math.random() is consulted at every pixel
\* or at none, so its n-th value belongs to the n-th pixel visited.
RECURSIVE xLoop(_, _, _, _)
xLoop(x, y, acc, ctx) ==
    IF x >= ctx.width THEN acc
    ELSE IF samplingSkips(ctx.samplingFactor, ctx.isVoxelMode,
                          ctx.rnd[y * ctx.width + x + 1])
         THEN xLoop(x + 1, y, acc, ctx)
         ELSE xLoop(x + 1, y,
                    emitPixel(acc, x, y, ctx.width, ctx.height,
                              ctx.colorData, ctx.depthData, ctx.isVoxelMode),
                    ctx)

\* for (let y = 0; y < height; y++) { for x ... }
RECURSIVE yLoop(_, _, _)
yLoop(y, acc, ctx) ==
    IF y >= ctx.height THEN acc
    ELSE yLoop(y + 1, xLoop(0, y, acc, ctx), ctx)

\* Mutant: the buffer is returned whole.
slice_whole(arr, end) == arr

\* Float32Array.prototype.slice(0, end)
slice(arr, end) == SubSeq(arr, 1, end)

\* The value returned, or the exception thrown (getImageData throws
\* IndexSizeError for an empty rectangle).  rnd[n] is the n-th value of
\* Math.random().
generatePointCloudFromImages(colorCanvas, depthCanvas, samplingFactor, isVoxelMode, rnd) ==
    LET width == colorCanvas.width
        height == colorCanvas.height
        totalPixels == width * height
        ctx == [width |-> width, height |-> height,
                colorData |-> getImageData(colorCanvas, width, height),
                depthData |-> getImageData(depthCanvas, width, height),
                samplingFactor |-> samplingFactor,
                isVoxelMode |-> isVoxelMode,
                rnd |-> rnd]
        acc0 == [positions |-> [j \in 1..(totalPixels * 3) |-> 0],
                 colors |-> [j \in 1..(totalPixels * 3) |-> 0],
                 pIndex |-> 0,
                 pointCount |-> 0]
        acc == yLoop(0, acc0, ctx)
    IN  IF width = 0 \/ height = 0
        THEN [ok |-> FALSE, error |-> "IndexSizeError"]
        ELSE [ok |-> TRUE,
              positions |-> slice(acc.positions, acc.pIndex),
              colors |-> slice(acc.colors, acc.pIndex),
              count |-> acc.pointCount,
              width |-> width,
              height |-> height]

\* --------------------------------------------------------- build3DModel ----
\* The part of build3DModel that runs once both images are loaded: the
\* target resolution and the density follow the view mode, both images are
\* resized on their own, and the cloud is built from the two canvases.
\* The value is the arguments handed to generatePointCloudFromImages.
build3DModelArgs(colorImg, depthImg, viewMode, samplingDensity, voxelResolution, rc, rd) ==
    LET targetRes == IF viewMode = "voxels" THEN voxelResolution ELSE PointsRes
        density == IF viewMode = "voxels" THEN FullDensity ELSE samplingDensity
    IN  [colorCanvas |-> resizeImage(colorImg, targetRes, rc),
         depthCanvas |-> resizeImage(depthImg, targetRes, rd),
         samplingFactor |-> density,
         isVoxelMode |-> (viewMode = "voxels")]

\* ---------------------------------------------------------------- state ----
VARIABLES
    colorImg,       \* the colour raster (source image, or canvas of a direct call)
    depthImg,       \* the depth raster
    last,           \* the latest reconstruction call: its arguments and outcome
    prev,           \* the call before it, made with the same arguments
    pointCloudData, \* the application's published cloud (null before a build)
    statusMessage,  \* the application's status line
    resized         \* the latest resizeImage call: maxSize and the canvas returned

\* The application's view settings and its build3DModel calls in flight.
VARIABLES app

\* The latest applyColorMap call: its arguments and the pixels it returned.
VARIABLES mapped

\* The gesture tracker (HandController) and the application's gesture ref.
VARIABLES
    zoomLevel,          \* zoomLevelRef.current, in millionths
    zoomVelocity,       \* zoomVelocityRef.current, in millionths per frame
    pinchRatioSmoothed, \* pinchRatioSmoothed.current, in millionths
    gestures,           \* gesturesRef.current
    trackingState,      \* 'tracking' or 'lost'
    sensitivity,        \* sensitivityRef.current: 'normal' or 'precise'
    isMirrored,         \* isMirroredRef.current
    showDebug,          \* showDebugRef.current
    isCameraActive,     \* the camera switch
    published,          \* the argument of the latest onUpdate call
    gestureRef,         \* the application's gestureRef.current, read by the renderer
    posted,             \* the messages posted to the embedded scene's window
    frame,              \* the latest tracker call: what it was and the values before it
    frames,             \* the number of calls counted against the bounds
    pipeline            \* the capture pipeline: refs, async calls in flight, devices

cloudVars == <<colorImg, depthImg, last, prev, pointCloudData, statusMessage, resized, mapped,
               app>>
trackerVars == <<zoomLevel, zoomVelocity, pinchRatioSmoothed, gestures, trackingState,
                 sensitivity, isMirrored, showDebug, isCameraActive, published,
                 gestureRef, posted, frame, frames>>
vars == <<cloudVars, trackerVars, pipeline>>

\* One millionth is the unit of zoom levels, velocities, ratios and rotations.
Unit == 1000 * 1000
ZoomBaseline_one == Unit

\* The zoom level the tracker starts from and reset() returns to: 1.2.
ZoomBaseline == 12 * (Unit \div 10)
\* The scale of the signal the application's view reset stores: 1.2.
ViewResetScale == 12 * (Unit \div 10)
\* The range zoomLevel is clamped to: [0.1, 12.0].
ZoomMin == Unit \div 10
ZoomMax == 12 * Unit

\* The number of startPipeline calls followed.
MaxStarts == 2

\* The capture pipeline before the component mounts. Each startPipeline call
\* has a number, which also names the Hands instance it creates and the
\* stream it is granted; 0 stands for null.
NoPipeline ==
    [mounted |-> FALSE,      \* the component is mounted
     unmounted |-> FALSE,    \* the component has been unmounted
     windowHands |-> FALSE,  \* window.Hands is defined (the library is loaded)
     handsRef |-> 0,         \* handsRef.current
     playing |-> FALSE,      \* play() has resolved for the video's stream
     streamRef |-> 0,        \* streamRef.current
     requestRef |-> FALSE,   \* the callback of requestRef.current is pending
     rafs |-> 0,             \* pending requestAnimationFrame(sendFrames) callbacks
     sends |-> [h \in 1..MaxStarts |-> 0],  \* awaited send calls, per instance
     starts |-> {},          \* startPipeline calls at an await
     video |-> 0,            \* the call whose onloadedmetadata handler is set
     open |-> {},            \* Hands instances not closed
     held |-> {},            \* streams with live tracks: the camera is held
     started |-> 0,          \* the number of startPipeline calls so far
     isReady |-> FALSE,
     error |-> "null"]

NoSignal == [none |-> TRUE]

\* The iframe of the embedded scene is rendered while the view mode is scene
\* and a scene has been generated.
sceneFrame(a) == a.viewMode = "scene" /\ a.sceneHtml

\* The view mode in the closure of startPipeline, which useCallback keeps
\* from the first render for the component's whole life.
startViewMode == "points"
NoFrame == [kind |-> "none"]

\* The tracker and the application's gesture ref as their constructors leave
\* them.
InitHandController ==
    /\ zoomLevel = ZoomBaseline
    /\ zoomVelocity = 0
    /\ pinchRatioSmoothed = Unit \div 2
    /\ gestures = [rotation |-> [x |-> 0, y |-> 0], scale |-> ZoomBaseline,
                   isTracking |-> FALSE]
    /\ trackingState = "lost"
    /\ sensitivity = "normal"
    /\ isMirrored = TRUE
    /\ showDebug = TRUE
    /\ isCameraActive = TRUE
    /\ published = NoSignal
    /\ gestureRef = [rotation |-> [x |-> 0, y |-> 0], scale |-> Unit,
                     isTracking |-> FALSE, isExploding |-> FALSE]
    /\ posted = << >>
    /\ frame = NoFrame
    /\ frames = 0
    /\ pipeline = NoPipeline


\* The application's settings after construction, no timer of the rebuild
\* effect pending and no build3DModel call made. Calls are numbered in the
\* order they are made.
NoApp ==
    [original |-> FALSE,                 \* originalImage is set
     images |-> FALSE,                   \* originalImage and depthImage are set
     viewMode |-> "points",
     samplingDensity |-> FactorDen \div 2,
     voxelResolution |-> VoxelResDefault,
     sceneHtml |-> FALSE,                \* voxelSceneHtml is set
     timer |-> << >>,                    \* the rebuild effect's pending timer
     loading |-> {},                     \* calls awaiting their image loads
     issued |-> 0,                       \* the number of the latest call
     publishedBy |-> 0,                  \* the call whose cloud is published
     publishedAt |-> 0,                  \* the latest call when it was published
     source |-> << >>,                   \* the images the published cloud was built from
     progress |-> 0,                     \* progress, in eighths of a percent
     isGenerating |-> FALSE,
     progressInterval |-> FALSE,         \* processGeneration's interval is set
     ticks |-> 0,                        \* the interval callbacks run so far
     run |-> << >>]                      \* the latest processGeneration call

NoCall == [via |-> "none"]
NoCloud == [ok |-> FALSE, error |-> "null"]
NoResize == [done |-> FALSE]
NoMap == [done |-> FALSE]

\* Raster sizes of the reconstructor's inputs.
Sizes == {s \in (1..MaxDim) \X (1..MaxDim) : s[1] * s[2] <= MaxPixels}

\* samplingFactor values, in quarters: -0.5, 0, 0.5, 1.0, 1.5.
Factors == {-2, 0, 2, FullDensity, 6}
\* Values of Math.random(), in quarters: 0 and 0.75.
RandVals == {0, 3}
Draws(n) == [1..n -> RandVals]
\* samplingDensity values the slider can hold (0.5 is the initial one).
Densities == {2, FullDensity}
ViewModes == {"points", "voxels", "scene"}
VoxelResolutions == {VoxelResMin, VoxelResDefault}

\* Colour rasters: the uniform (255, 0, 0) raster and a gradient.
ColorRasters ==
    {Raster(s[1], s[2], p[1], p[2], FALSE) :
        s \in Sizes, p \in {<<MaxChannel, 0>>, <<10, 37>>}}

\* Depth rasters offered with a colour raster of size w x h: gray ramps of the
\* same size, of the transposed size and of size 1 x 1.
DepthRastersFor(w, h) ==
    {Raster(s[1], s[2], p[1], p[2], TRUE) :
        s \in {<<w, h>>, <<h, w>>, <<1, 1>>}, p \in {<<0, 85>>, <<MaxChannel, 200>>}}

InitCloud ==
    /\ colorImg \in ColorRasters
    /\ depthImg \in DepthRastersFor(colorImg.width, colorImg.height)
    /\ last = NoCall
    /\ prev = NoCall
    /\ pointCloudData = NoCloud
    /\ statusMessage = ""
    /\ resized = NoResize
    /\ mapped = NoMap
    /\ InitHandController
    /\ app = NoApp

\* A direct call generatePointCloudFromImages(colorImg, depthImg, f, v).
Generate(f, v) ==
    /\ last.via = "none"
    /\ \E rnd \in Draws(colorImg.width * colorImg.height) :
          last' = [via |-> "direct",
                   args |-> [colorCanvas |-> colorImg, depthCanvas |-> depthImg,
                             samplingFactor |-> f, isVoxelMode |-> v],
                   out |-> generatePointCloudFromImages(colorImg, depthImg, f, v, rnd)]
    /\ UNCHANGED <<colorImg, depthImg, prev, pointCloudData, statusMessage, resized, mapped>>
    /\ UNCHANGED <<trackerVars, pipeline, app>>

\* build3DModel(colorSrc, depthSrc) once both images are loaded, under the
\* view mode, density and voxel resolution its closure holds.
Build3DModel ==
    /\ last.via = "none"
    /\ \E viewMode \in ViewModes, samplingDensity \in Densities,
          voxelResolution \in VoxelResolutions :
        LET targetRes == IF viewMode = "voxels" THEN voxelResolution ELSE PointsRes
        IN  \E rc \in ResampledChoices(colorImg, targetRes),
               rd \in ResampledChoices(depthImg, targetRes) :
            LET a == build3DModelArgs(colorImg, depthImg, viewMode,
                                      samplingDensity, voxelResolution, rc, rd)
            IN  \E rnd \in Draws(a.colorCanvas.width * a.colorCanvas.height) :
                LET cloud == generatePointCloudFromImages(
                                 a.colorCanvas, a.depthCanvas,
                                 a.samplingFactor, a.isVoxelMode, rnd)
                IN  /\ last' = [via |-> "app", args |-> a, out |-> cloud]
                    /\ IF cloud.ok
                       THEN /\ pointCloudData' = cloud
                            /\ statusMessage' = "Ready"
                       ELSE /\ pointCloudData' = pointCloudData
                            /\ statusMessage' = "Error building model."
    /\ UNCHANGED <<colorImg, depthImg, prev, resized, mapped>>
    /\ UNCHANGED <<trackerVars, pipeline, app>>

\* The same call made once more with identical arguments; only the values
\* Math.random() returns are new.
Again ==
    /\ last.via # "none"
    /\ prev.via = "none"
    /\ \E rnd \in Draws(last.args.colorCanvas.width * last.args.colorCanvas.height) :
          last' = [last EXCEPT !.out =
                      generatePointCloudFromImages(
                          last.args.colorCanvas, last.args.depthCanvas,
                          last.args.samplingFactor, last.args.isVoxelMode, rnd)]
    /\ prev' = last
    /\ UNCHANGED <<colorImg, depthImg, pointCloudData, statusMessage, resized, mapped>>
    /\ UNCHANGED <<trackerVars, pipeline, app>>

NextCloud ==
    \/ \E f \in Factors, v \in BOOLEAN : Generate(f, v)
    \/ Build3DModel
    \/ Again

SpecCloud == InitCloud /\ [][NextCloud]_vars

\* ----------------------------------------- every 8-bit channel value ----
\* Pairs of equal size whose pixels run through every channel value: pixel k
\* of the depth raster holds (seed + k) mod 256, and the colour raster's
\* red and blue channels take every value of 0..255 as the seed varies.
InitChannels ==
    /\ \E s \in Sizes, seed \in 0..MaxChannel :
          /\ colorImg = Raster(s[1], s[2], seed, 1, FALSE)
          /\ depthImg = Raster(s[1], s[2], seed, 1, TRUE)
    /\ last = NoCall
    /\ prev = NoCall
    /\ pointCloudData = NoCloud
    /\ statusMessage = ""
    /\ resized = NoResize
    /\ mapped = NoMap
    /\ InitHandController
    /\ app = NoApp

NextChannels == \E v \in BOOLEAN : Generate(FullDensity, v)

SpecChannels == InitChannels /\ [][NextChannels]_vars

\* -------------------------------------------------- resizeImage alone ----
\* Source images of every size up to MaxSide, a zero side included.
InitResize ==
    /\ \E w \in 0..MaxSide, h \in 0..MaxSide : colorImg = Raster(w, h, 10, 37, FALSE)
    /\ depthImg = Raster(1, 1, 0, 0, TRUE)
    /\ last = NoCall
    /\ prev = NoCall
    /\ pointCloudData = NoCloud
    /\ statusMessage = ""
    /\ resized = NoResize
    /\ mapped = NoMap
    /\ InitHandController
    /\ app = NoApp

\* resizeImage(colorImg, maxSize)
Resize(maxSize) ==
    /\ ~resized.done
    /\ \E rs \in ResampledChoices(colorImg, maxSize) :
          resized' = [done |-> TRUE, maxSize |-> maxSize,
                      canvas |-> resizeImage(colorImg, maxSize, rs)]
    /\ UNCHANGED <<colorImg, depthImg, last, prev, pointCloudData, statusMessage, mapped>>
    /\ UNCHANGED <<trackerVars, pipeline, app>>

NextResize == \E maxSize \in 1..MaxSide : Resize(maxSize)

SpecResize == InitResize /\ [][NextResize]_vars

\* =============================================================== claims ====
\* The reconstruction calls made so far.
Calls == {c \in {last, prev} : c.via # "none"}

CanvasW(c) == c.args.colorCanvas.width
CanvasH(c) == c.args.colorCanvas.height
EqualDims(c) ==
    /\ c.args.colorCanvas.width = c.args.depthCanvas.width
    /\ c.args.colorCanvas.height = c.args.depthCanvas.height

\* C1: a call with samplingFactor = 1.0 in point-cloud mode on a colour and a
\* depth raster of equal size W x H returns count = W * H and positions and
\* colors of length 3 * W * H.
C1_FullDensityCount ==
    \A c \in Calls :
        (EqualDims(c) /\ c.args.samplingFactor = FullDensity /\ ~c.args.isVoxelMode)
        => /\ c.out.ok
           /\ c.out.count = CanvasW(c) * CanvasH(c)
           /\ Len(c.out.positions) = 3 * CanvasW(c) * CanvasH(c)
           /\ Len(c.out.colors) = 3 * CanvasW(c) * CanvasH(c)

\* A full-density point-cloud call on a 2 x 2 pair has returned.
C1_Witness ==
    /\ last.via = "direct"
    /\ EqualDims(last)
    /\ last.args.samplingFactor = FullDensity
    /\ ~last.args.isVoxelMode
    /\ CanvasW(last) = 2 /\ CanvasH(last) = 2
    /\ last.out.count = 4

\* C2: whatever the rasters, the density, the mode and the pixels the sampling
\* gate skipped, the returned buffers hold exactly three numbers per point
\* kept: Len(positions) = Len(colors) = 3 * count.
C2_BuffersTrimmed ==
    \A c \in Calls :
        c.out.ok => /\ Len(c.out.positions) = 3 * c.out.count
                    /\ Len(c.out.colors) = 3 * c.out.count

\* The gate skipped some pixels and kept others.
C2_Witness ==
    /\ last.via # "none"
    /\ last.out.ok
    /\ last.out.count > 0
    /\ last.out.count < CanvasW(last) * CanvasH(last)

\* C3: a call whose colour and depth rasters differ in width or height fails
\* with DimensionMismatch and produces no cloud, on the direct path and on
\* the application's path.
C3_DimensionMismatchFails ==
    \A c \in Calls :
        ~EqualDims(c)
        => /\ ~c.out.ok
           /\ c.out.error = "DimensionMismatch"
           /\ pointCloudData = NoCloud

\* depthScale / 2 = max(W, H) / 4 over PosDen.
HalfDepthScale(w, h) == (Max(w, h) * PosDen) \div 4
Abs(n) == IF n < 0 THEN -n ELSE n
\* posZ of the i-th point of a cloud (i from 1).
PointZ(out, i) == out.positions[3 * i]

\* C4 as stated: in both modes every emitted point's posZ lies in
\* [-depthScale/2, depthScale/2], depthScale = max(W, H) / 2.
C4_PosZInRange ==
    \A c \in Calls :
        c.out.ok =>
            \A i \in 1..c.out.count :
                Abs(PointZ(c.out, i)) <= HalfDepthScale(CanvasW(c), CanvasH(c))

\* C4 amended: in point-cloud mode posZ lies in [-depthScale/2, depthScale/2];
\* in voxel mode posZ is an integer within 1/2 of that interval, and inside
\* it when max(W, H) is a multiple of 4.
C4_PosZInRangeAmended ==
    \A c \in Calls :
        c.out.ok =>
            \A i \in 1..c.out.count :
                LET z == PointZ(c.out, i)
                    half == HalfDepthScale(CanvasW(c), CanvasH(c))
                IN  IF c.args.isVoxelMode
                    THEN /\ z % PosDen = 0
                         /\ 2 * Abs(z) <= 2 * half + PosDen
                         /\ (Max(CanvasW(c), CanvasH(c)) % 4 = 0 => Abs(z) <= half)
                    ELSE Abs(z) <= half

\* A voxel-mode call has emitted a point whose rounded posZ is outside
\* [-depthScale/2, depthScale/2].
C4_Witness ==
    /\ last.via = "direct"
    /\ last.args.isVoxelMode
    /\ \E i \in 1..last.out.count :
          Abs(PointZ(last.out, i)) > HalfDepthScale(CanvasW(last), CanvasH(last))

\* The colour channel bytes of the pixels a call reads.
ColorChannels(c) ==
    {c.args.colorCanvas.data[j] :
        j \in {k \in 1..Len(c.args.colorCanvas.data) : k % 4 # 0}}

\* C5: in voxel mode the posterized value of every channel, before the
\* saturation boost, is one of the 8 levels 0/8 .. 7/8.
C5_PosterizedPalette ==
    \A c \in Calls :
        c.args.isVoxelMode =>
            \A v \in ColorChannels(c) : posterize(v) \in 0..(levels - 1)

\* C6: two calls at samplingFactor = 1.0 with the same rasters and mode
\* return the same positions, colors and count, whatever Math.random()
\* would have returned.
C6_FullDensityDeterministic ==
    (prev.via # "none" /\ prev.args.samplingFactor = FullDensity)
        => last.out = prev.out

\* The same full-density call has been made twice on a raster of several pixels.
C6_Witness ==
    /\ prev.via # "none"
    /\ prev.args.samplingFactor = FullDensity
    /\ last.args = prev.args
    /\ last.out.ok
    /\ last.out.count >= 2

\* C7: a call with samplingFactor = 1.5 returns what the call with 1.0 on
\* the same inputs returns; a call with samplingFactor = 0 or below returns
\* a cloud (it does not throw) with 0 <= count <= W * H, and count = 0 below 0.
C7_OutOfRangeFactors ==
    \A c \in Calls :
        /\ c.args.samplingFactor > FullDensity =>
              \A rnd \in Draws(CanvasW(c) * CanvasH(c)) :
                  c.out = generatePointCloudFromImages(
                              c.args.colorCanvas, c.args.depthCanvas,
                              FullDensity, c.args.isVoxelMode, rnd)
        /\ c.args.samplingFactor <= 0 =>
              /\ c.out.ok
              /\ c.out.count >= 0
              /\ c.out.count <= CanvasW(c) * CanvasH(c)
              /\ (c.args.samplingFactor < 0 /\ ~c.args.isVoxelMode => c.out.count = 0)

\* A point-cloud call with samplingFactor = 1.5 has returned every pixel.
C7_Witness ==
    /\ last.via = "direct"
    /\ last.args.samplingFactor > FullDensity
    /\ ~last.args.isVoxelMode
    /\ last.out.count = CanvasW(last) * CanvasH(last)
    /\ last.out.count >= 2

\* C8: in voxel mode the sampling gate is never applied: whatever the
\* samplingFactor and the random draws, count = W * H.
C8_VoxelKeepsEveryPixel ==
    \A c \in Calls :
        c.args.isVoxelMode =>
            /\ c.out.ok
            /\ c.out.count = CanvasW(c) * CanvasH(c)

\* A voxel-mode call with a samplingFactor below 1.0 has returned.
C8_Witness ==
    /\ last.via = "direct"
    /\ last.args.isVoxelMode
    /\ last.args.samplingFactor < FullDensity
    /\ last.args.samplingFactor > 0
    /\ last.out.count >= 2

\* The depth raster's red channel at pixel (x, y).
DepthAt(c, x, y) == c.args.depthCanvas.data[4 * (y * c.args.depthCanvas.width + x) + 1]

\* C9: at full density in point-cloud mode the i-th point (from 0) belongs to
\* pixel (i mod W, i div W) and has posX = x - W/2, posY = -(y - H/2),
\* posZ = (d/255 - 0.5) * max(W,H)/2; hence posZ is strictly increasing in d.
C9_RowMajorCentred ==
    \A c \in Calls :
        (EqualDims(c) /\ c.args.samplingFactor = FullDensity /\ ~c.args.isVoxelMode)
        => LET W == CanvasW(c)
               H == CanvasH(c)
               P == c.out.positions
           IN  /\ \A i \in 0..(W * H - 1) :
                     LET x == i % W
                         y == i \div W
                     IN  /\ 2 * P[3 * i + 1] = (2 * x - W) * PosDen
                         /\ 2 * P[3 * i + 2] = -((2 * y - H) * PosDen)
                         /\ 2 * 2 * MaxChannel * P[3 * i + 3]
                               = (2 * DepthAt(c, x, y) - MaxChannel) * Max(W, H) * PosDen
               /\ \A i, j \in 0..(W * H - 1) :
                     DepthAt(c, i % W, i \div W) < DepthAt(c, j % W, j \div W)
                         => P[3 * i + 3] < P[3 * j + 3]

\* A full-density point-cloud call on a 2 x 2 pair with distinct depths.
C9_Witness ==
    /\ last.via # "none"
    /\ EqualDims(last)
    /\ last.args.samplingFactor = FullDensity
    /\ ~last.args.isVoxelMode
    /\ CanvasW(last) = 2 /\ CanvasH(last) = 2
    /\ DepthAt(last, 0, 0) < DepthAt(last, 0, 1)
    /\ last.out.count = 4

C11_ZeroDimensionFails ==
    (resized.done /\ (colorImg.width = 0 \/ colorImg.height = 0))
        => /\ "error" \in DOMAIN resized
           /\ resized.error = "InvalidImage"
           /\ "canvas" \notin DOMAIN resized

\* ====================================================================
\* The gesture tracker: HandController's per-frame handler and controls.
\*
\* Numbers. Landmark coordinates are hundredths of the frame (0..CoordDen);
\* distances between landmarks are thousandths (DistDen), the square root
\* rounded down; ratios, velocities, zoom levels and rotations are millionths
\* (Unit). Every product or quotient of the handler is rounded to the nearest
\* unit (Quot), as the double computation rounds to the nearest double; the
\* pinch ratio and the zoom intensity are carried to the nearest thousandth.
\* The poses offered to the handler have exact distances and ratios.
\* ====================================================================
CoordDen == 10 * 10
DistDen == 10 * CoordDen
\* A hand has 21 landmarks, numbered 0..20.
LandmarkCount == 21
\* null or undefined where a list of landmarks is expected; a hand that is
\* present is the one-element sequence of its landmarks.
Undefined == << >>

\* n / d rounded to the nearest integer, ties away from zero.
Quot(n, d) ==
    IF n >= 0 THEN (2 * n + d) \div (2 * d) ELSE -((2 * (-n) + d) \div (2 * d))

\* Math.sqrt(n), rounded down, by bisection over lo..hi.
RECURSIVE SqrtIn(_, _, _)
SqrtIn(n, lo, hi) ==
    IF lo >= hi THEN lo
    ELSE LET mid == (lo + hi + 1) \div 2
         IN  IF mid * mid <= n THEN SqrtIn(n, mid, hi) ELSE SqrtIn(n, lo, mid - 1)

MathSqrt(n) == SqrtIn(n, 0, 2 * DistDen)

\* Math.pow(|d|, 1.5) for d in hundredths, in units of 1 / (CoordDen * DistDen).
MathPow15(d) == Abs(d) * MathSqrt(Abs(d) * CoordDen * CoordDen)

MathSign(d) == IF d > 0 THEN 1 ELSE IF d < 0 THEN -1 ELSE 0

\* ROT_SPEED and ZOOM_MAX_SPEED under a sensitivity: 0.15 / 0.05, 0.08 / 0.03.
ROT_SPEED(currentSens) ==
    IF currentSens = "normal" THEN 15 * (Unit \div 100) ELSE 5 * (Unit \div 100)
ZOOM_MAX_SPEED(currentSens) ==
    IF currentSens = "normal" THEN 8 * (Unit \div 100) ELSE 3 * (Unit \div 100)

\* The neutral band of the smoothed pinch ratio: 0.35 and 0.75.
THRESH_OUT == 35 * (Unit \div 100)
THRESH_IN == 75 * (Unit \div 100)
\* Velocities of magnitude below 0.0001 are set to 0.
VelocitySnap == Unit \div 10000

\* landmarks[k], k counted from 0.
Landmark(landmarks, k) == landmarks[k + 1]

\* A mirror about the horizontal axis: y replaced by 1 - y.
mirror_vertical(landmarks) ==
    [i \in DOMAIN landmarks |-> [landmarks[i] EXCEPT !.y = CoordDen - @]]

\* landmarks.map(p => ({...p, x: 1 - p.x}))
mirror(landmarks) ==
    [i \in DOMAIN landmarks |-> [landmarks[i] EXCEPT !.x = CoordDen - @]]

\* Math.sqrt(Math.pow(a.x - b.x, 2) + Math.pow(a.y - b.y, 2)), in thousandths.
Distance(a, b) ==
    MathSqrt(((a.x - b.x) * (a.x - b.x) + (a.y - b.y) * (a.y - b.y))
                 * (DistDen \div CoordDen) * (DistDen \div CoordDen))

\* Wrist to middle-finger MCP, and thumb tip to index tip.
handSize(zh) == Distance(Landmark(zh, 0), Landmark(zh, 9))
pinchDist(zh) == Distance(Landmark(zh, 4), Landmark(zh, 8))

\* handSize || 0.1: 0.1 replaces a handSize of exactly 0.
ratioDivisor(hs) == IF hs = 0 THEN DistDen \div 10 ELSE hs

\* rawRatio = pinchDist / (handSize || 0.1), in millionths.
rawRatio(zh) ==
    Quot(pinchDist(zh) * 1000, ratioDivisor(handSize(zh))) * (Unit \div 1000)

\* pinchRatioSmoothed.current * 0.90 + rawRatio * 0.10
smoothRatio(smoothed, raw) == Quot(smoothed * 9 + raw, 10)

\* Math.pow(intensity, 2) of a speed, the intensity in thousandths.
speedAt(maxSpeed, intensity) == Quot(Quot(maxSpeed * intensity, 1000) * intensity, 1000)

targetSpeed_narrowBand(ratio, currentSens) ==
    IF ratio < THRESH_OUT
    THEN -speedAt(ZOOM_MAX_SPEED(currentSens), 1000 - Quot(ratio * 1000, THRESH_OUT))
    ELSE IF ratio > THRESH_OUT
    THEN speedAt(ZOOM_MAX_SPEED(currentSens),
                 Min(1000, Quot(ratio - THRESH_OUT, 4 * (Unit \div 10000))))
    ELSE 0

\* The speed the smoothed ratio asks for: zoom out below THRESH_OUT, zoom in
\* above THRESH_IN, 0 in between.
targetSpeed(ratio, currentSens) ==
    IF ratio < THRESH_OUT
    THEN -speedAt(ZOOM_MAX_SPEED(currentSens), 1000 - Quot(ratio * 1000, THRESH_OUT))
    ELSE IF ratio > THRESH_IN
    THEN speedAt(ZOOM_MAX_SPEED(currentSens),
                 Min(1000, Quot(ratio - THRESH_IN, 4 * (Unit \div 10000))))
    ELSE 0

\* zoomVelocity * 0.85 + targetSpeed * 0.15, set to 0 under the snap threshold.
blendVelocity(velocity, target) ==
    LET v == Quot(velocity * 85 + target * 15, 100)
    IN  IF Abs(v) < VelocitySnap THEN 0 ELSE v

clampZoom_unbounded(level) == level

\* Math.max(0.1, Math.min(level, 12.0))
clampZoom(level) == Max(ZoomMin, Min(level, ZoomMax))

\* The rotation velocity about one axis from an index-tip coordinate.
rotationSpeed(coord, currentSens) ==
    LET raw == (coord - CoordDen \div 2) * 2
    IN  Quot(MathPow15(raw) * MathSign(raw) * (ROT_SPEED(currentSens) \div 1000),
             (CoordDen * DistDen) \div 1000)

\* handOf with the label ignored: the last hand of the frame plays both roles.
handOf_anyLabel(results, label, mirrored) ==
    LET hd == results.multiHandedness
    IN  IF Len(hd) = 0 THEN Undefined
        ELSE IF Len(hd) > Len(results.multiHandLandmarks) THEN Undefined
        ELSE IF mirrored THEN <<mirror(results.multiHandLandmarks[Len(hd)])>>
        ELSE <<results.multiHandLandmarks[Len(hd)]>>

\* The landmarks the forEach over multiHandedness leaves in rotateHand
\* ('Right') or zoomHand ('Left'): those of the last entry with the label,
\* null when there is none, undefined when the entry has no landmarks.
handOf(results, label, mirrored) ==
    LET hd == results.multiHandedness
        is == {i \in 1..Len(hd) : hd[i].label = label}
    IN  IF is = {} THEN Undefined
        ELSE LET i == CHOOSE j \in is : \A k \in is : k <= j
             IN  IF i > Len(results.multiHandLandmarks) THEN Undefined
                 ELSE IF mirrored THEN <<mirror(results.multiHandLandmarks[i])>>
                 ELSE <<results.multiHandLandmarks[i]>>

\* Whether reading a hand's landmarks raises a TypeError: drawSkeleton reads
\* landmarks 0..20, the gesture reads landmarks up to `top`.
handThrows(hand, top, shouldDraw) ==
    /\ hand # Undefined
    /\ Len(hand[1]) < (IF shouldDraw THEN LandmarkCount ELSE top + 1)

hasHands(results) ==
    /\ "multiHandLandmarks" \in DOMAIN results
    /\ Len(results.multiHandLandmarks) > 0

\* Whether onResults raises a TypeError on these results: a missing
\* multiHandedness list, an entry of it without landmarks while mirroring, or
\* a hand too short for the landmarks read from it.
onResultsThrows(results, mirrored, shouldDraw) ==
    /\ hasHands(results)
    /\ \/ "multiHandedness" \notin DOMAIN results
       \/ /\ mirrored
          /\ Len(results.multiHandedness) > Len(results.multiHandLandmarks)
       \/ handThrows(handOf(results, "Right", mirrored), 8, shouldDraw)
       \/ handThrows(handOf(results, "Left", mirrored), 9, shouldDraw)

noHands_resetsZoom(t) ==
    [t EXCEPT !.gestures = [rotation |-> [x |-> 0, y |-> 0],
                            scale |-> ZoomBaseline, isTracking |-> FALSE],
              !.zoomLevel = ZoomBaseline,
              !.trackingState = "lost",
              !.threw = FALSE, !.sent = TRUE]

\* The branch of onResults for a frame without hands: tracking is lost and
\* the rotation zeroed in the signal; the zoom refs are not touched.
noHands(t) ==
    [t EXCEPT !.gestures.isTracking = FALSE,
              !.gestures.rotation = [x |-> 0, y |-> 0],
              !.trackingState = "lost",
              !.threw = FALSE, !.sent = TRUE]

\* onResults(results) on the tracker refs t. `mounted` tells whether the
\* canvas and the video element are rendered. The outcome holds the refs
\* after the call, whether the call raised (threw) and whether it reached
\* onUpdate(gesturesRef.current) (sent).
onResults(t, results, currentSens, mirrored, shouldDraw, mounted) ==
    IF ~mounted THEN [t EXCEPT !.threw = FALSE, !.sent = FALSE]
    ELSE IF onResultsThrows(results, mirrored, shouldDraw)
    THEN [t EXCEPT !.threw = TRUE, !.sent = FALSE]
    ELSE IF hasHands(results)
    THEN LET rotateHand == handOf(results, "Right", mirrored)
             zoomHand == handOf(results, "Left", mirrored)
             rotX == IF rotateHand = Undefined THEN 0
                     ELSE rotationSpeed(Landmark(rotateHand[1], 8).y, currentSens)
             rotY == IF rotateHand = Undefined THEN 0
                     ELSE rotationSpeed(Landmark(rotateHand[1], 8).x, currentSens)
             ratio == smoothRatio(t.pinchRatioSmoothed, rawRatio(zoomHand[1]))
             velocity == IF zoomHand = Undefined THEN 0
                         ELSE blendVelocity(t.zoomVelocity,
                                            targetSpeed(ratio, currentSens))
             level == IF zoomHand = Undefined THEN t.zoomLevel
                      ELSE clampZoom(t.zoomLevel + velocity)
         IN  [zoomLevel |-> level,
              zoomVelocity |-> velocity,
              pinchRatioSmoothed |->
                  IF zoomHand = Undefined THEN t.pinchRatioSmoothed ELSE ratio,
              gestures |-> [rotation |-> [x |-> rotX, y |-> rotY],
                            scale |-> level, isTracking |-> TRUE],
              trackingState |-> "tracking",
              threw |-> FALSE, sent |-> TRUE]
    ELSE noHands(t)

Refs ==
    [zoomLevel |-> zoomLevel, zoomVelocity |-> zoomVelocity,
     pinchRatioSmoothed |-> pinchRatioSmoothed, gestures |-> gestures,
     trackingState |-> trackingState, threw |-> FALSE, sent |-> FALSE]

\* ------------------------------------------------ the capture pipeline ----
\* stopPipeline(): cancel the callback of requestRef, close and forget the
\* Hands instance, stop and forget the stream.
stopPipeline(p) ==
    [p EXCEPT !.rafs = IF p.requestRef THEN @ - 1 ELSE @,
              !.requestRef = FALSE,
              !.open = @ \ {p.handsRef},
              !.handsRef = 0,
              !.held = @ \ {p.streamRef},
              !.streamRef = 0]

\* The video and canvas elements are rendered while the component is mounted
\* and shows no error.
canvasMounted(p) == p.mounted /\ p.error = "null"

\* The video element is rendered and neither paused nor ended: play() has
\* resolved for the stream attached to it and that stream is not stopped.
videoPlays(p) == canvasMounted(p) /\ p.playing /\ p.video \in p.held

\* sendFrames() up to its await: with a playing video and a Hands instance
\* the frame is sent and the call awaits; otherwise the call goes on to
\* schedule itself again if a Hands instance is held.
sendFrames(p) ==
    IF videoPlays(p) /\ p.handsRef # 0
    THEN [p EXCEPT !.sends[p.handsRef] = @ + 1]
    ELSE IF p.handsRef # 0
    THEN [p EXCEPT !.rafs = @ + 1, !.requestRef = TRUE]
    ELSE p

\* startPipeline from `new window.Hands` to its await of getUserMedia, for
\* the call numbered id.
createHands(p, id) ==
    [p EXCEPT !.handsRef = id, !.open = @ \cup {id},
              !.starts = (@ \ {[id |-> id, pc |-> "load"]})
                             \cup {[id |-> id, pc |-> "media"]}]

\* startPipeline() up to its first await: the library poll while
\* window.Hands is undefined, getUserMedia once it is defined.
startPipeline(p) ==
    LET id == p.started + 1
        q == [stopPipeline(p) EXCEPT !.error = "null", !.isReady = FALSE,
                                     !.started = id]
    IN  IF q.windowHands THEN createHands(q, id)
        ELSE [q EXCEPT !.starts = @ \cup {[id |-> id, pc |-> "load"]}]

\* The catch block of startPipeline: the error is shown, the pipeline stopped.
startFails(p, s, message) ==
    [stopPipeline(p) EXCEPT !.error = message, !.starts = @ \ {s}]

\* ------------------------------------------------------ frame results ----
Pt(x, y) == [x |-> x, y |-> y]
Right == [label |-> "Right"]
Left == [label |-> "Left"]

\* A hand of n landmarks: wrist (0), thumb tip (4), index tip (8) and middle
\* MCP (9) as given, every other landmark at the wrist.
Hand(wrist, thumbTip, indexTip, middleMCP, n) ==
    [i \in 1..n |-> CASE i = 5 -> thumbTip
                      [] i = 9 -> indexTip
                      [] i = 10 -> middleMCP
                      [] OTHER -> wrist]

\* A hand pointing at (0.8, 0.3); hands of size 0.2 pinched to the ratios 0,
\* 0.5 and 1.5; a hand of size 0.05 with pinch distance 0.3 and a hand of
\* size 0 with pinch distance 0.1; a hand of five landmarks.
PointingHand == Hand(Pt(70, 90), Pt(60, 60), Pt(80, 30), Pt(70, 70), LandmarkCount)
ClosedHand == Hand(Pt(50, 80), Pt(40, 40), Pt(40, 40), Pt(50, 60), LandmarkCount)
NeutralHand == Hand(Pt(50, 80), Pt(40, 40), Pt(50, 40), Pt(50, 60), LandmarkCount)
OpenHand == Hand(Pt(50, 80), Pt(30, 40), Pt(60, 40), Pt(50, 60), LandmarkCount)
SmallHand == Hand(Pt(50, 80), Pt(30, 40), Pt(60, 40), Pt(50, 75), LandmarkCount)
FlatHand == Hand(Pt(50, 80), Pt(40, 40), Pt(50, 40), Pt(50, 80), LandmarkCount)
ShortHand == Hand(Pt(50, 80), Pt(40, 40), Pt(50, 40), Pt(50, 60), 5)

\* The results MediaPipe hands to onResults, by name.
Results(name) ==
    CASE name = "none" ->
             [multiHandLandmarks |-> << >>, multiHandedness |-> << >>]
      [] name = "rotate" ->
             [multiHandLandmarks |-> <<PointingHand>>, multiHandedness |-> <<Right>>]
      [] name = "zoomOut" ->
             [multiHandLandmarks |-> <<ClosedHand>>, multiHandedness |-> <<Left>>]
      [] name = "neutral" ->
             [multiHandLandmarks |-> <<NeutralHand>>, multiHandedness |-> <<Left>>]
      [] name = "zoomIn" ->
             [multiHandLandmarks |-> <<OpenHand>>, multiHandedness |-> <<Left>>]
      [] name = "both" ->
             [multiHandLandmarks |-> <<OpenHand, PointingHand>>,
              multiHandedness |-> <<Left, Right>>]
      [] name = "smallHand" ->
             [multiHandLandmarks |-> <<SmallHand>>, multiHandedness |-> <<Left>>]
      [] name = "flatHand" ->
             [multiHandLandmarks |-> <<FlatHand>>, multiHandedness |-> <<Left>>]
      [] name = "noHandedness" ->
             [multiHandLandmarks |-> <<NeutralHand>>]
      [] name = "shortHand" ->
             [multiHandLandmarks |-> <<ShortHand>>, multiHandedness |-> <<Left>>]
      [] name = "unlabelled" ->
             [multiHandLandmarks |-> <<NeutralHand>>, multiHandedness |-> << >>]

WellFormed == {"none", "rotate", "zoomOut", "neutral", "zoomIn", "both",
               "smallHand", "flatHand", "unlabelled"}
Malformed == {"noHandedness", "shortHand"}
ResultNames == WellFormed \cup Malformed

\* The zoom hand of a well-formed result, Undefined without one.
ZoomHandOf(name) == handOf(Results(name), "Left", FALSE)
RotateHandOf(name) == handOf(Results(name), "Right", FALSE)

\* ------------------------------------------------------ tracker steps ----
\* The number of calls followed: frames delivered, switches and resets.
MaxCalls == 3

Counted ==
    /\ frames < MaxCalls
    /\ frames' = frames + 1

zoomVars == <<zoomLevel, zoomVelocity, pinchRatioSmoothed>>
controlVars == <<sensitivity, isMirrored, showDebug>>

\* The values a call finds, kept with the call in `frame`.
Before ==
    [zoomLevel |-> zoomLevel, zoomVelocity |-> zoomVelocity,
     pinchRatioSmoothed |-> pinchRatioSmoothed,
     gestures |-> gestures, published |-> published,
     posts |-> Len(posted), inScene |-> sceneFrame(app),
     sensitivity |-> sensitivity, isMirrored |-> isMirrored]

\* The messages handleHandUpdate(signal) leaves posted when it was created
\* in a render with the given view mode and runs while the application is
\* a: the signal is posted if that mode is scene and the iframe exists.
postGesture(signal, viewMode, a) ==
    IF viewMode = "scene" /\ sceneFrame(a)
    THEN Append(posted, [type |-> "gesture", data |-> signal])
    ELSE posted

\* handleHandUpdate(signal) of a render with the given view mode: onUpdate
\* hands the signal to the application, which stores it in gestureRef and
\* forwards it to the embedded scene.
Publish(signal, viewMode, a) ==
    /\ published' = signal
    /\ gestureRef' = signal
    /\ posted' = postGesture(signal, viewMode, a)

\* One call of onResults on the results named `name`; `cost` is what the
\* call counts against the bound.
Frame(name, cost) ==
    \E r \in {onResults(Refs, Results(name), sensitivity, isMirrored, showDebug,
                       canvasMounted(pipeline))} :
        /\ zoomLevel' = r.zoomLevel
        /\ zoomVelocity' = r.zoomVelocity
        /\ pinchRatioSmoothed' = r.pinchRatioSmoothed
        /\ gestures' = r.gestures
        /\ trackingState' = r.trackingState
        /\ IF r.sent THEN Publish(r.gestures, startViewMode, app)
           ELSE UNCHANGED <<published, gestureRef, posted>>
        /\ frame' = [kind |-> "frame", results |-> name, before |-> Before,
                     threw |-> r.threw, sent |-> r.sent]
        /\ frames' = frames + cost
        /\ UNCHANGED <<cloudVars, controlVars, isCameraActive, pipeline>>

\* A Hands instance with a frame sent to it calls onResults.
Delivering == \E h \in pipeline.open : pipeline.sends[h] > 0

OnResults ==
    /\ Delivering
    /\ frames < MaxCalls
    /\ \E name \in ResultNames : Frame(name, 1)

\* The sensitivity buttons of the settings panel, shown while the camera is
\* active.
SetSensitivity ==
    /\ pipeline.mounted
    /\ isCameraActive
    /\ Counted
    /\ sensitivity' = IF sensitivity = "normal" THEN "precise" ELSE "normal"
    /\ UNCHANGED <<cloudVars, zoomVars, gestures, trackingState, isMirrored, showDebug,
                   isCameraActive, published, gestureRef, posted, frame, pipeline>>

\* The mirror and skeleton switches.
ToggleMirrored ==
    /\ pipeline.mounted
    /\ isCameraActive
    /\ Counted
    /\ isMirrored' = ~isMirrored
    /\ UNCHANGED <<cloudVars, zoomVars, gestures, trackingState, sensitivity, showDebug,
                   isCameraActive, published, gestureRef, posted, frame, pipeline>>

ToggleDebug ==
    /\ pipeline.mounted
    /\ isCameraActive
    /\ Counted
    /\ showDebug' = ~showDebug
    /\ UNCHANGED <<cloudVars, zoomVars, gestures, trackingState, sensitivity, isMirrored,
                   isCameraActive, published, gestureRef, posted, frame, pipeline>>

\* reset(), that is resetZoom(): back to the baseline, and the signal
\* published as a copy.
resetZoom ==
    /\ zoomLevel' = ZoomBaseline
    /\ zoomVelocity' = 0
    /\ gestures' = [gestures EXCEPT !.scale = ZoomBaseline]
    /\ published' = gestures'
    /\ UNCHANGED <<cloudVars, pinchRatioSmoothed, trackingState, controlVars,
                   isCameraActive, pipeline>>

\* The tracker's own reset button, shown while the camera is active.
ResetZoom ==
    /\ pipeline.mounted
    /\ isCameraActive
    /\ Counted
    /\ resetZoom
    /\ gestureRef' = gestures'
    /\ posted' = postGesture(gestures', app.viewMode, app)
    /\ frame' = [kind |-> "reset", reset |-> TRUE, before |-> Before]

\* The application's view reset: reset() through the tracker's handle, then
\* the application's own default signal.
handleResetView ==
    /\ Counted
    /\ IF pipeline.mounted
       THEN /\ resetZoom
            /\ posted' = postGesture(gestures', app.viewMode, app)
       ELSE UNCHANGED <<cloudVars, zoomVars, gestures, published, posted,
                        trackingState, controlVars, isCameraActive, pipeline>>
    /\ gestureRef' = [rotation |-> [x |-> 0, y |-> 0], scale |-> ViewResetScale,
                      isTracking |-> FALSE, isExploding |-> FALSE]
    /\ frame' = [kind |-> "view", reset |-> pipeline.mounted, before |-> Before]

\* ----------------------------------------------------- pipeline steps ----
Effect_silent(p, active, a) ==
    /\ pipeline' = IF active THEN startPipeline(p)
                   ELSE [stopPipeline(p) EXCEPT !.isReady = FALSE]
    /\ UNCHANGED <<gestures, trackingState, published, gestureRef, posted>>

\* The camera effect's body after its cleanup left the pipeline p: start the
\* pipeline while the camera is active; otherwise stop it and publish the
\* signal with isTracking = false.
Effect(p, active, a) ==
    IF active
    THEN /\ pipeline' = startPipeline(p)
         /\ UNCHANGED <<gestures, trackingState, published, gestureRef, posted>>
    ELSE /\ pipeline' = [stopPipeline(p) EXCEPT !.isReady = FALSE]
         /\ trackingState' = "lost"
         /\ gestures' = [gestures EXCEPT !.isTracking = FALSE]
         /\ Publish(gestures', a.viewMode, a)

\* The component mounts and the effect runs for the first time.
Mount ==
    /\ ~pipeline.mounted
    /\ ~pipeline.unmounted
    /\ Effect([pipeline EXCEPT !.mounted = TRUE], isCameraActive, app)
    /\ frame' = [kind |-> "effect", before |-> Before]
    /\ UNCHANGED <<cloudVars, zoomVars, controlVars, isCameraActive, frames>>

\* The camera switch: the effect's cleanup (stopPipeline), then its body
\* under the new value.
ToggleCamera ==
    /\ pipeline.mounted
    /\ isCameraActive \/ pipeline.started < MaxStarts
    /\ Counted
    /\ isCameraActive' = ~isCameraActive
    /\ Effect(stopPipeline(pipeline), ~isCameraActive, app)
    /\ frame' = [kind |-> "effect", before |-> Before]
    /\ UNCHANGED <<cloudVars, zoomVars, controlVars>>

\* The effect runs again when onUpdate changes, as it does when the
\* application switches the view mode.
RerunEffect ==
    /\ pipeline.mounted
    /\ ~isCameraActive \/ pipeline.started < MaxStarts
    /\ Counted
    /\ Effect(stopPipeline(pipeline), isCameraActive, app)
    /\ frame' = [kind |-> "effect", before |-> Before]
    /\ UNCHANGED <<cloudVars, zoomVars, controlVars, isCameraActive>>

\* The component unmounts: the cleanup runs, the elements are gone.
Unmount ==
    /\ pipeline.mounted
    /\ pipeline' = [stopPipeline(pipeline) EXCEPT !.mounted = FALSE,
                                                  !.unmounted = TRUE]
    /\ frame' = [kind |-> "unmount", before |-> Before]
    /\ UNCHANGED <<cloudVars, zoomVars, gestures, trackingState, controlVars,
                   isCameraActive, published, gestureRef, posted, frames>>

StartsAt(pc) == {s \in pipeline.starts : s.pc = pc}

PipelineStep(p) ==
    /\ pipeline' = p
    /\ UNCHANGED <<cloudVars, trackerVars>>

\* The library's script finishes loading: window.Hands is defined.
LibraryLoads ==
    /\ ~pipeline.windowHands
    /\ PipelineStep([pipeline EXCEPT !.windowHands = TRUE])

\* A startPipeline call polling for the library finds window.Hands defined.
PollFinds ==
    \E s \in StartsAt("load") :
        /\ pipeline.windowHands
        /\ PipelineStep(createHands(pipeline, s.id))

\* The poll gives up: the call throws and its catch block runs.
PollGivesUp ==
    \E s \in StartsAt("load") :
        /\ ~pipeline.windowHands
        /\ PipelineStep(startFails(pipeline, s,
                                   "MediaPipe library failed to load."))

\* getUserMedia resolves: the stream is kept in streamRef and, with a video
\* element, attached to it under a new onloadedmetadata handler.
MediaGranted ==
    \E s \in StartsAt("media") :
        LET p == [pipeline EXCEPT !.streamRef = s.id, !.held = @ \cup {s.id},
                                  !.starts = @ \ {s}]
        IN  PipelineStep(
                IF canvasMounted(pipeline)
                THEN [p EXCEPT !.video = s.id, !.playing = FALSE,
                               !.starts = @ \cup {[id |-> s.id, pc |-> "meta"]}]
                ELSE p)

\* getUserMedia rejects.
MediaDenied ==
    \E s \in StartsAt("media") :
        PipelineStep(startFails(pipeline, s, "Camera unavailable"))

\* loadedmetadata fires on the video element: its current handler calls
\* play() if the video element is still rendered.
MetadataLoaded ==
    \E s \in StartsAt("meta") :
        /\ pipeline.video = s.id
        /\ PipelineStep([pipeline EXCEPT
               !.starts = (@ \ {s}) \cup
                              (IF canvasMounted(pipeline)
                               THEN {[id |-> s.id, pc |-> "play"]} ELSE {})])

\* play() resolves: the tracker is ready and sendFrames() starts the loop.
Played ==
    \E s \in StartsAt("play") :
        PipelineStep(sendFrames([pipeline EXCEPT !.starts = @ \ {s},
                                                 !.playing = TRUE,
                                                 !.isReady = TRUE]))

\* play() rejects.
PlayFails ==
    \E s \in StartsAt("play") :
        PipelineStep([pipeline EXCEPT !.starts = @ \ {s},
                                      !.error = "Video play failed"])

\* An awaited send settles (resolved or rejected): sendFrames schedules
\* itself again while a Hands instance is held.
SendSettles ==
    \E h \in 1..MaxStarts :
        /\ pipeline.sends[h] > 0
        /\ LET p == [pipeline EXCEPT !.sends[h] = @ - 1]
           IN  PipelineStep(IF p.handsRef # 0
                            THEN [p EXCEPT !.rafs = @ + 1, !.requestRef = TRUE]
                            ELSE p)

\* A scheduled callback runs sendFrames: the one requestRef names, or an
\* older one still pending.
FrameCallback ==
    /\ pipeline.rafs > 0
    /\ \E newest \in BOOLEAN :
          /\ newest => pipeline.requestRef
          /\ ~newest => pipeline.rafs > (IF pipeline.requestRef THEN 1 ELSE 0)
          /\ PipelineStep(sendFrames(
                 [pipeline EXCEPT !.rafs = @ - 1,
                                  !.requestRef = IF newest THEN FALSE ELSE @]))

\* ------------------------------------------- the tracker over frames ----
\* The application holds no images while the tracker runs.
InitTracker ==
    /\ colorImg = Raster(1, 1, 0, 0, FALSE)
    /\ depthImg = Raster(1, 1, 0, 0, TRUE)
    /\ last = NoCall
    /\ prev = NoCall
    /\ pointCloudData = NoCloud
    /\ statusMessage = ""
    /\ resized = NoResize
    /\ mapped = NoMap
    /\ InitHandController
    /\ app = NoApp

\* The pipeline starts without a failure and delivers up to MaxCalls
\* results of any kind; one loop iteration (send, result, rescheduling, next
\* send) is the step OnResults.
NextTracker ==
    \/ Mount
    \/ LibraryLoads
    \/ PollFinds
    \/ MediaGranted
    \/ MetadataLoaded
    \/ Played
    \/ OnResults
    \/ SetSensitivity
    \/ ToggleMirrored
    \/ ToggleDebug
    \/ ToggleCamera
    \/ ResetZoom
    \/ handleResetView

SpecTracker == InitTracker /\ [][NextTracker]_vars

TrackerTypeOK ==
    /\ zoomLevel \in Int
    /\ zoomVelocity \in Int
    /\ frames \in 0..MaxCalls

\* ------------------------------------------ the tracker over long holds ----
\* The poses held in front of the camera: no hand, a rotate hand, a zoom
\* hand closed, neutral, or open together with a rotate hand.
HeldPoses == {"none", "rotate", "zoomOut", "neutral", "both"}

\* The latest call was a frame that changed none of the refs: one more frame
\* with the same results changes nothing either. Calls other than frames
\* leave the tracker settled.
Settled ==
    (frame.kind = "frame")
        => /\ zoomLevel = frame.before.zoomLevel
           /\ zoomVelocity = frame.before.zoomVelocity
           /\ pinchRatioSmoothed = frame.before.pinchRatioSmoothed
           /\ gestures = frame.before.gestures

\* The capture loop delivers one more frame of the pose that is being held.
HoldFrame ==
    /\ Delivering
    /\ frame.kind = "frame"
    /\ frame.results \in HeldPoses
    /\ Frame(frame.results, 0)

\* The hands move to another pose once the tracker has settled.
ChangePose ==
    /\ Delivering
    /\ Settled
    /\ frames < MaxCalls
    /\ \E name \in HeldPoses :
          /\ (frame.kind = "frame") => name # frame.results
          /\ Frame(name, 1)

\* The pipeline starts without a failure; every pose is held until the
\* tracker has settled, and the controls are used between poses.
NextZoom ==
    \/ Mount
    \/ LibraryLoads
    \/ PollFinds
    \/ MediaGranted
    \/ MetadataLoaded
    \/ Played
    \/ HoldFrame
    \/ ChangePose
    \/ Settled /\ SetSensitivity
    \/ Settled /\ ToggleCamera
    \/ Settled /\ ResetZoom
    \/ Settled /\ handleResetView

\* While a Hands instance is held, sendFrames schedules itself again after
\* every frame, so the frames of a held pose keep coming.
SpecZoom == InitTracker /\ [][NextZoom]_vars /\ WF_vars(HoldFrame)

\* ---------------------------------------------- claims on the tracker ----
\* The latest tracker call is a frame handed to onResults.
IsFrame == frame.kind = "frame"
NoRotation == [x |-> 0, y |-> 0]

\* C12: a frame in which no hand is detected publishes a signal with
\* isTracking = false and rotation (0,0), sets trackingState to lost, and
\* leaves zoomLevel and the published scale at their values before the frame.
C12_NoHandFrame ==
    (IsFrame /\ ~hasHands(Results(frame.results)))
        => /\ frame.sent
           /\ published = gestures
           /\ published.isTracking = FALSE
           /\ published.rotation = NoRotation
           /\ trackingState = "lost"
           /\ zoomLevel = frame.before.zoomLevel
           /\ published.scale = frame.before.gestures.scale
           /\ frame.before.published # NoSignal
                  => published.scale = frame.before.published.scale

\* A no-hand frame that follows a tracking frame which moved the zoom level
\* and left a rotation.
C12_Witness ==
    /\ IsFrame
    /\ frame.results = "none"
    /\ frame.before.gestures.isTracking
    /\ frame.before.zoomLevel # ZoomBaseline
    /\ frame.before.zoomVelocity # 0
    /\ zoomLevel = frame.before.zoomLevel

\* C13: after every processed frame without a zoom hand (label Left), whether
\* a rotate hand is present or no hand at all, zoomVelocity is 0.
C13_NoZoomHandZeroVelocity ==
    (IsFrame /\ frame.sent /\ frame.results \in WellFormed
             /\ ZoomHandOf(frame.results) = Undefined)
        => zoomVelocity = 0

InZoomRange(level) == ZoomMin <= level /\ level <= ZoomMax

\* C14: in every reachable state of the tracker, after frames with zero, one
\* or two hands, sensitivity changes, camera toggles and resets, zoomLevel
\* and the published scale lie in [0.1, 12.0].
C14_ZoomBounded ==
    /\ InZoomRange(zoomLevel)
    /\ InZoomRange(gestures.scale)
    /\ published # NoSignal => InZoomRange(published.scale)

\* A frame whose velocity would carry the zoom level past 12.0, and the
\* signal it published.
C14_Witness ==
    /\ IsFrame
    /\ frame.sent
    /\ frame.before.zoomLevel + zoomVelocity > ZoomMax
    /\ published.scale = zoomLevel

\* The latest frame is one of a neutral zoom hand (raw pinch ratio 0.5).
HoldingNeutral == IsFrame /\ frame.results = "neutral"

\* The smoothed ratio lies outside the neutral band [0.35, 0.75].
OutOfBand(ratio) == ratio < THRESH_OUT \/ ratio > THRESH_IN

\* What is left to do before a neutral hold has stopped the zoom: the
\* distance of the smoothed ratio from 0.5 (and one unit of 1.0 more) while
\* the ratio is outside the neutral band, the speed once it is inside.
NeutralRank(ratio, velocity) ==
    IF OutOfBand(ratio) THEN Unit + Abs(ratio - Unit \div 2) ELSE Abs(velocity)

\* C15: with a zoom hand in every frame and the raw pinch ratio held at 0.5,
\* zoomVelocity is exactly 0 after finitely many frames and zoomLevel is
\* constant from then on: every such frame lowers NeutralRank, a natural
\* number, until it is 0; at rank 0 the velocity is 0 and a further frame
\* keeps the rank at 0 and the zoom level where it was.
C15_NeutralHoldSettles ==
    HoldingNeutral =>
        LET rankBefore == NeutralRank(frame.before.pinchRatioSmoothed,
                                      frame.before.zoomVelocity)
            rankAfter == NeutralRank(pinchRatioSmoothed, zoomVelocity)
        IN  /\ frame.sent
            /\ rankAfter >= 0
            /\ rankBefore > 0 => rankAfter < rankBefore
            /\ rankBefore = 0 => /\ rankAfter = 0
                                 /\ zoomLevel = frame.before.zoomLevel
                                 /\ published.scale = frame.before.gestures.scale
            /\ rankAfter = 0 => zoomVelocity = 0

\* The frame of a neutral hold in which the decaying velocity is set to 0.
C15_Witness ==
    /\ HoldingNeutral
    /\ zoomVelocity = 0
    /\ frame.before.zoomVelocity # 0
    /\ frame.before.gestures.isTracking
    /\ zoomLevel # ZoomBaseline

\* The latest tracker call is reset(): the tracker's own button, or the
\* application's view reset with the tracker mounted.
IsReset == frame.kind \in {"reset", "view"} /\ frame.reset

\* C16: reset() in any tracker state, with the camera on or off and with or
\* without a tracked hand, sets zoomLevel to 1.2 and zoomVelocity to 0 and
\* publishes a signal of scale 1.2; after the application's view reset the
\* signal the renderer reads has scale 1.2.
C16_ResetToBaseline ==
    /\ IsReset => /\ zoomLevel = 12 * (Unit \div 10)
                  /\ zoomVelocity = 0
                  /\ published # NoSignal
                  /\ published.scale = 12 * (Unit \div 10)
                  /\ published = gestures
    /\ frame.kind = "view" => gestureRef.scale = 12 * (Unit \div 10)

\* The view reset with the camera switched off, after a frame that tracked
\* a hand and left the zoom moving away from the baseline.
C16_Witness ==
    /\ frame.kind = "view"
    /\ frame.reset
    /\ ~isCameraActive
    /\ frame.before.zoomLevel # ZoomBaseline
    /\ frame.before.zoomVelocity # 0
    /\ zoomLevel = ZoomBaseline

\* The raw pinch ratio as the description gives it, in millionths:
\* pinchDistance / max(handSize, 0.1).
flooredRatio(zh) ==
    Quot(pinchDist(zh) * 1000, Max(handSize(zh), DistDen \div 10)) * (Unit \div 1000)

\* The latest frame was handled to the end and carried a zoom hand.
ZoomHandFrame ==
    /\ IsFrame
    /\ frame.sent
    /\ frame.results \in WellFormed
    /\ ZoomHandOf(frame.results) # Undefined

\* C17: for every zoom-hand pose the raw pinch ratio blended into the
\* smoothed ratio is pinchDistance / max(handSize, 0.1), so a hand whose
\* wrist-to-middle-MCP distance is below 0.1 is divided by 0.1 and the raw
\* ratio never exceeds pinchDistance / 0.1.
C17_RatioFloored ==
    ZoomHandFrame =>
        LET zh == ZoomHandOf(frame.results)[1]
        IN  pinchRatioSmoothed =
                smoothRatio(frame.before.pinchRatioSmoothed, flooredRatio(zh))

\* The latest frame carried a malformed result and reached the handler while
\* the canvas and video elements were rendered.
MalformedFrame ==
    /\ IsFrame
    /\ frame.results \in Malformed
    /\ frame.threw \/ frame.sent

\* C20: a frame whose result reports hands without a handedness list, or a
\* hand with fewer than 21 landmarks, raises no exception out of onResults
\* and is handled as a frame without hands: the signal published for it has
\* isTracking = false and rotation (0,0).
C20_MalformedIsNoHands ==
    MalformedFrame =>
        /\ ~frame.threw
        /\ frame.sent
        /\ published # NoSignal
        /\ published.isTracking = FALSE
        /\ published.rotation = NoRotation

\* ------------------------------------- the pipeline under interleaving ----
\* The results delivered while the pipeline's steps interleave: no hand, or
\* a rotate hand.
PipelineResults == {"none", "rotate"}

\* A Hands instance that is not closed answers a frame sent to it.
PipelineFrame ==
    /\ Delivering
    /\ frames < MaxCalls
    /\ \E name \in PipelineResults : Frame(name, 1)

\* The Retry Camera button of the error display calls startPipeline().
RetryCamera ==
    /\ pipeline.mounted
    /\ pipeline.error # "null"
    /\ pipeline.started < MaxStarts
    /\ PipelineStep(startPipeline(pipeline))

\* Every step of the pipeline, its failures included, interleaved with the
\* camera switch, reruns of the effect and the unmount.
NextPipeline ==
    \/ Mount
    \/ LibraryLoads
    \/ PollFinds
    \/ PollGivesUp
    \/ MediaGranted
    \/ MediaDenied
    \/ MetadataLoaded
    \/ Played
    \/ PlayFails
    \/ SendSettles
    \/ FrameCallback
    \/ PipelineFrame
    \/ ToggleCamera
    \/ RerunEffect
    \/ RetryCamera
    \/ Unmount

SpecPipeline == InitTracker /\ [][NextPipeline]_vars

\* Teardown of the capture loop has been requested and no start since: the
\* camera is switched off, or the component is unmounted.
TornDown == pipeline.unmounted \/ (pipeline.mounted /\ ~isCameraActive)

\* C19: once teardown is requested, whatever startPipeline call is still
\* awaiting the library or getUserMedia and whatever send is in flight, no
\* camera stream is held, no frame callback is pending, no further frame is
\* sent and no result callback publishes a gesture signal.
C19_TeardownIsFinal ==
    [][TornDown' =>
          /\ pipeline'.held = {}
          /\ pipeline'.rafs = 0
          /\ TornDown =>
                /\ \A h \in 1..MaxStarts : pipeline'.sends[h] <= pipeline.sends[h]
                /\ (frames' # frames /\ frame'.kind = "frame") => ~frame'.sent]_vars

\* ------------------------------------------- overlapping reconstructions ----
\* The number of build3DModel calls followed.
MaxBuilds == 2

\* What a render's closures hold: the settings and the two image sources.
Closure(a, colorSrc, depthSrc) ==
    [viewMode |-> a.viewMode, samplingDensity |-> a.samplingDensity,
     voxelResolution |-> a.voxelResolution,
     colorSrc |-> colorSrc, depthSrc |-> depthSrc]

\* build3DModel(colorSrc, depthSrc) up to its await of the two image loads,
\* called from the closure c; `through` names the caller.
build3DModel(a, colorSrc, depthSrc, c, through) ==
    [a EXCEPT !.issued = @ + 1,
              !.loading = @ \cup {[id |-> a.issued + 1, through |-> through,
                                   colorSrc |-> colorSrc, depthSrc |-> depthSrc,
                                   viewMode |-> c.viewMode,
                                   samplingDensity |-> c.samplingDensity,
                                   voxelResolution |-> c.voxelResolution]}]

\* The effect on [viewMode, voxelResolution]: its cleanup clears the timer,
\* its body sets a new one unless the mode is scene or an image is missing.
rebuildEffect(a, colorSrc, depthSrc) ==
    [a EXCEPT !.timer = IF a.viewMode = "scene" \/ ~a.images THEN << >>
                        ELSE <<Closure(a, colorSrc, depthSrc)>>]

\* The files an import can bring: a 2 x 1 pair and a 1 x 1 pair.
ImportedPairs ==
    {[color |-> Raster(2, 1, 10, 37, FALSE), depth |-> Raster(2, 1, 0, 85, TRUE)],
     [color |-> Raster(1, 1, MaxChannel, 0, FALSE),
      depth |-> Raster(1, 1, MaxChannel, 200, TRUE)]}

AppStep(a) ==
    /\ app' = a
    /\ UNCHANGED <<colorImg, depthImg, last, prev, pointCloudData, statusMessage,
                   resized, mapped, trackerVars, pipeline>>

\* The mode buttons: the new mode runs the rebuild effect and, as it gives
\* the tracker a new onUpdate, the tracker's camera effect (its cleanup,
\* then its body) while the tracker is mounted.
switchMode(mode) ==
    /\ mode # app.viewMode
    /\ app' = rebuildEffect([app EXCEPT !.viewMode = mode], colorImg, depthImg)
    /\ UNCHANGED <<colorImg, depthImg, last, prev, pointCloudData, statusMessage,
                   resized, mapped>>
    /\ IF pipeline.mounted
       THEN /\ ~isCameraActive \/ pipeline.started < MaxStarts
            /\ Counted
            /\ Effect(stopPipeline(pipeline), isCameraActive, app')
            /\ frame' = [kind |-> "effect", before |-> Before]
            /\ UNCHANGED <<zoomVars, controlVars, isCameraActive>>
       ELSE UNCHANGED <<trackerVars, pipeline>>

\* The voxel resolution slider, enabled once a cloud is published.
SetVoxelResolution(v) ==
    /\ pointCloudData.ok
    /\ app.viewMode # "points"
    /\ v # app.voxelResolution
    /\ AppStep(rebuildEffect([app EXCEPT !.voxelResolution = v], colorImg, depthImg))

\* The effect's timer fires: build3DModel from the closure of the render
\* that set it.
TimerFires ==
    /\ app.timer # << >>
    /\ app.issued < MaxBuilds
    /\ LET c == app.timer[1]
       IN  AppStep(build3DModel([app EXCEPT !.timer = << >>],
                                c.colorSrc, c.depthSrc, c, "effect"))

\* The density slider moved to d and released: commitDensityChange().
commitDensityChange(d) ==
    /\ pointCloudData.ok
    /\ app.viewMode = "points"
    /\ app.issued < MaxBuilds
    /\ LET a == [app EXCEPT !.samplingDensity = d]
       IN  AppStep(IF a.images /\ a.viewMode = "points"
                   THEN build3DModel(a, colorImg, depthImg,
                                     Closure(a, colorImg, depthImg), "density")
                   ELSE a)

\* handleImportFile's reader.onload for a file holding both images and, when
\* mode is not "absent", a view mode: the images and the mode are set and
\* build3DModel is called from the handler's closure; a changed mode runs
\* the rebuild effect in the next render.
handleImportFile(pair, mode) ==
    /\ app.issued < MaxBuilds
    /\ colorImg' = pair.color
    /\ depthImg' = pair.depth
    /\ statusMessage' = "Importing cloud..."
    /\ LET set == [app EXCEPT !.original = TRUE, !.images = TRUE,
                              !.viewMode = IF mode = "absent" THEN @ ELSE mode]
           called == build3DModel(set, pair.color, pair.depth,
                                  Closure(app, colorImg, depthImg), "import")
       IN  app' = IF set.viewMode # app.viewMode
                  THEN rebuildEffect(called, pair.color, pair.depth)
                  ELSE called
    /\ UNCHANGED <<last, prev, pointCloudData, resized, mapped, trackerVars, pipeline>>

\* progress is kept in eighths of a percent.
ProgressDen == 2 * 2 * 2

\* processGeneration after its await of build3DModel(originalImage,
\* fullDepthSrc), which has returned without an exception whether or not a
\* cloud was built: progress 100 and the status 'Generated with ...', then
\* the finally block. `built` and `stage` record what build3DModel did.
generationReturns(a, r, built, stage) ==
    IF r.through = "generate"
    THEN [a EXCEPT !.progress = 100 * ProgressDen,
                   !.progressInterval = FALSE,
                   !.isGenerating = FALSE,
                   !.run = <<[pc |-> "done", status |-> "Generated with",
                              built |-> built,
                              failed |-> IF built THEN "nothing" ELSE stage]>>]
    ELSE a

\* Both image loads of the call r have completed: the rest of build3DModel
\* runs under the settings of r's closure, and of handleImportFile after it.
BuildCompletes(r) ==
    LET targetRes == IF r.viewMode = "voxels" THEN r.voxelResolution ELSE PointsRes
    IN  \E rc \in ResampledChoices(r.colorSrc, targetRes),
           rd \in ResampledChoices(r.depthSrc, targetRes) :
        LET a == build3DModelArgs(r.colorSrc, r.depthSrc, r.viewMode,
                                  r.samplingDensity, r.voxelResolution, rc, rd)
        IN  \E rnd \in Draws(a.colorCanvas.width * a.colorCanvas.height) :
            LET cloud == generatePointCloudFromImages(
                             a.colorCanvas, a.depthCanvas,
                             a.samplingFactor, a.isVoxelMode, rnd)
            IN  /\ last' = [via |-> "app", args |-> a, out |-> cloud]
                /\ pointCloudData' = IF cloud.ok THEN cloud ELSE pointCloudData
                /\ statusMessage' =
                       IF r.through = "import" THEN "Cloud imported successfully."
                       ELSE IF r.through = "generate" THEN "Generated with"
                       ELSE IF cloud.ok THEN "Ready"
                       ELSE "Error building model."
                /\ app' = [generationReturns(app, r, cloud.ok, "reconstruct") EXCEPT
                              !.loading = @ \ {r},
                              !.publishedBy = IF cloud.ok THEN r.id ELSE @,
                              !.publishedAt = IF cloud.ok THEN app.issued ELSE @,
                              !.source = IF cloud.ok
                                         THEN <<[color |-> r.colorSrc,
                                                 depth |-> r.depthSrc]>>
                                         ELSE @]
                /\ UNCHANGED <<colorImg, depthImg, prev, resized, mapped, trackerVars, pipeline>>

InitBuilds ==
    /\ colorImg = Raster(1, 1, 0, 0, FALSE)
    /\ depthImg = Raster(1, 1, 0, 0, TRUE)
    /\ last = NoCall
    /\ prev = NoCall
    /\ pointCloudData = NoCloud
    /\ statusMessage = ""
    /\ resized = NoResize
    /\ mapped = NoMap
    /\ InitHandController
    /\ app = NoApp

\* Imports, mode switches, slider commits and timers issue calls; the image
\* loads of the calls in flight complete in any order.
NextBuilds ==
    \/ \E pair \in ImportedPairs, mode \in ViewModes \cup {"absent"} :
          handleImportFile(pair, mode)
    \/ \E mode \in ViewModes : switchMode(mode)
    \/ \E v \in VoxelResolutions : SetVoxelResolution(v)
    \/ TimerFires
    \/ \E d \in Densities : commitDensityChange(d)
    \/ \E r \in app.loading : BuildCompletes(r)

SpecBuilds == InitBuilds /\ [][NextBuilds]_vars

\* C18: with overlapping build3DModel calls, a call that completes after a
\* newer call was made publishes nothing, and once every call has completed
\* the published cloud is the one of the latest call, in whatever order the
\* image loads complete.
C18_LastRequestWins ==
    /\ app.publishedBy # 0 => app.publishedBy = app.publishedAt
    /\ (app.loading = {} /\ app.issued > 0) => app.publishedBy = app.issued

\* ------------------------------------------ the tracker and the scene ----
\* The images an upload can bring.
UploadedImages == {Raster(1, 1, MaxChannel, 0, FALSE), Raster(2, 1, 10, 37, FALSE)}

\* handleImageUpload's reader.onload: the new source image replaces the old
\* one; the depth image, the cloud and the scene are cleared.
handleImageUpload(img) ==
    /\ colorImg' = img
    /\ pointCloudData' = NoCloud
    /\ statusMessage' = "Image loaded."
    /\ app' = [app EXCEPT !.original = TRUE, !.images = FALSE, !.sceneHtml = FALSE]
    /\ UNCHANGED <<depthImg, last, prev, resized, mapped, trackerVars, pipeline>>

\* The Clear button, shown while a source image is held.
clearSource ==
    /\ app.original
    /\ pointCloudData' = NoCloud
    /\ app' = [app EXCEPT !.original = FALSE, !.images = FALSE, !.sceneHtml = FALSE]
    /\ UNCHANGED <<colorImg, depthImg, last, prev, statusMessage, resized, mapped,
                   trackerVars, pipeline>>

\* processSceneGeneration from the Generate Scene button to the scene it
\* stores: the iframe is rendered from then on while the mode is scene.
processSceneGeneration ==
    /\ app.viewMode = "scene"
    /\ app.original
    /\ ~app.sceneHtml
    /\ statusMessage' = "Scene generated"
    /\ app' = [app EXCEPT !.sceneHtml = TRUE]
    /\ UNCHANGED <<colorImg, depthImg, last, prev, pointCloudData, resized, mapped,
                   trackerVars, pipeline>>

\* The results delivered while the scene is shown.
SceneResults == {"none", "rotate", "zoomIn"}

SceneFrame ==
    /\ Delivering
    /\ frames < MaxCalls
    /\ \E name \in SceneResults : Frame(name, 1)

\* The tracker starts without a failure while the user uploads an image,
\* switches the view mode, generates a scene and resets the view.
NextScene ==
    \/ Mount
    \/ LibraryLoads
    \/ PollFinds
    \/ MediaGranted
    \/ MetadataLoaded
    \/ Played
    \/ \E img \in UploadedImages : handleImageUpload(img)
    \/ \E mode \in ViewModes : switchMode(mode)
    \/ processSceneGeneration
    \/ SceneFrame
    \/ ToggleCamera
    \/ ResetZoom
    \/ handleResetView

SpecScene == InitTracker /\ [][NextScene]_vars

\* The latest tracker call published a signal while the view mode was scene
\* and the scene's iframe existed.
PublishedInScene ==
    /\ (IsFrame /\ frame.sent) \/ IsReset
    /\ frame.before.inScene

\* C21: while the view mode is scene and the scene's iframe exists, every
\* signal the tracker publishes, for a processed frame or a reset, is posted
\* to the scene as {type: 'gesture', data: signal}, whenever the mode was
\* switched to scene.
C21_SceneReceivesEverySignal ==
    PublishedInScene =>
        /\ Len(posted) = frame.before.posts + 1
        /\ posted[Len(posted)] = [type |-> "gesture", data |-> published]

\* The latest call is the camera effect run with the camera switched off.
CameraOffEffect == frame.kind = "effect" /\ pipeline.mounted /\ ~isCameraActive

\* C22: after every processed frame the published isTracking is true exactly
\* if the frame held at least one hand, whatever its label, and
\* trackingState is tracking exactly if isTracking is true; switching the
\* camera off publishes isTracking = false.
C22_TrackingIffHands ==
    /\ (IsFrame /\ frame.sent) =>
           /\ published.isTracking <=> hasHands(Results(frame.results))
           /\ trackingState = "tracking" <=> published.isTracking
    /\ CameraOffEffect =>
           /\ published # NoSignal
           /\ ~published.isTracking
           /\ trackingState = "lost"
    /\ trackingState = "tracking" <=> gestures.isTracking

\* A frame with one hand that carries no label is tracked, after a frame
\* without hands.
C22_Witness ==
    /\ IsFrame
    /\ frame.sent
    /\ frame.results = "unlabelled"
    /\ published.isTracking
    /\ frame.before.published # NoSignal
    /\ ~frame.before.published.isTracking

\* C23: every signal the tracker publishes carries isExploding as a boolean,
\* and the signal the renderer reads has isExploding = true exactly while
\* the explode trigger is held; no operation of the program holds that
\* trigger, so the renderer's signal keeps isExploding = false, and a
\* tracking frame does not drop the field.
C23_ExplodeFlagCarried ==
    /\ published # NoSignal =>
           /\ "isExploding" \in DOMAIN published
           /\ published.isExploding \in BOOLEAN
    /\ "isExploding" \in DOMAIN gestureRef
    /\ gestureRef.isExploding = FALSE

\* ------------------------------------------------------- applyColorMap ----
\* contrast and intensity are counted in halves, a gray value in quarters.
MapDen == 2
ValDen == MapDen * MapDen

\* The store of a number n / den >= 0 into a Uint8ClampedArray: clamped to
\* 255 and rounded to the nearest integer, a tie to the even one.
toUint8Clamped(n, den) ==
    LET c == Min(n, MaxChannel * den)
        f == c \div den
        rem == c - f * den
    IN  IF 2 * rem < den THEN f
        ELSE IF 2 * rem > den THEN f + 1
        ELSE IF f % 2 = 0 THEN f ELSE f + 1

\* Mutant: the intensity is applied before the contrast.
grayValue_intensityFirst(v, contrast, intensity) ==
    Max(0, Min(MaxChannel * ValDen,
               (v * intensity - 128 * MapDen) * contrast + 128 * ValDen))

\* val of the loop body, in quarters: ((val - 128) * contrast + 128) *
\* intensity, clamped to 0..255.
grayValue(v, contrast, intensity) ==
    Max(0, Min(MaxChannel * ValDen,
               ((v - 128) * contrast + 128 * MapDen) * intensity))

\* A channel of the heatmap, n / den >= 0, as stored: at an exact tie the
\* rounding error of the double arithmetic decides, up or down.
heatByte(n, den, up) ==
    LET f == n \div den
    IN  IF 2 * (n - f * den) = den THEN (IF up THEN f + 1 ELSE f)
        ELSE toUint8Clamped(n, den)

\* The heatmap of a clamped value of N quarters (t = val / 255): black to
\* purple below 0.33, to orange below 0.66, to yellow below 0.9, to white.
heatmap(N, up) ==
    IF 100 * N < 33 * MaxChannel * ValDen
    THEN <<heatByte(1000 * N, 3366, up), 0, heatByte(1000 * N, 3366, up)>>
    ELSE IF 100 * N < 66 * MaxChannel * ValDen
    THEN <<heatByte(1550 * N - 55 * 3366, 3366, up), 0,
           heatByte(200 * 3366 - 1000 * N, 3366, up)>>
    ELSE IF 10 * N < 9 * MaxChannel * ValDen
    THEN <<MaxChannel, heatByte(25 * N - 16830, 24, up), 0>>
    ELSE <<MaxChannel, MaxChannel, heatByte(5 * N - 4590, 2, up)>>

\* The pixels applyColorMap leaves in imageData.data for the pixels `data`;
\* ups[p] tells which way a tie of pixel p's heatmap channels is stored.
applyColorMap(data, contrast, intensity, colorize, ups) ==
    [j \in 1..Len(data) |->
        LET p == (j - 1) \div 4
            c == (j - 1) % 4
            val == grayValue(data[4 * p + 1], contrast, intensity)
        IN  IF c = 3 THEN data[j]
            ELSE IF colorize THEN heatmap(val, ups[p + 1])[c + 1]
            ELSE toUint8Clamped(val, ValDen)]

\* Contrast values 0.5, 1, 1.5 and 2.5 and intensity values 0.5, 1 and 1.5,
\* in halves.
Contrasts == {1, MapDen, 3, 5}
Intensities == {1, MapDen, 3}

\* Images of two pixels: the first with every red value, gray or coloured,
\* opaque or not; the second a fixed gray pixel.
MapImages ==
    {<<v, (v + 100) % (MaxChannel + 1), (v + 50) % (MaxChannel + 1), MaxChannel,
       200, 200, 200, MaxChannel>> : v \in 0..MaxChannel}
    \cup {<<v, v, v, a, 200, 200, 200, MaxChannel>> :
              v \in 0..MaxChannel, a \in {77, MaxChannel}}

\* `mapped` holds the arguments of the call to come.
InitColorMap ==
    /\ colorImg = Raster(1, 1, 0, 0, FALSE)
    /\ depthImg = Raster(1, 1, 0, 0, TRUE)
    /\ last = NoCall
    /\ prev = NoCall
    /\ pointCloudData = NoCloud
    /\ statusMessage = ""
    /\ resized = NoResize
    /\ \E data \in MapImages, contrast \in Contrasts, intensity \in Intensities,
          colorize \in BOOLEAN :
          mapped = [done |-> FALSE, data |-> data, contrast |-> contrast,
                    intensity |-> intensity, colorize |-> colorize]
    /\ InitHandController
    /\ app = NoApp

\* applyColorMap(img, contrast, intensity, colorize) on the pixels of img.
ApplyColorMap ==
    /\ ~mapped.done
    /\ "data" \in DOMAIN mapped
    /\ \E ups \in [1..(Len(mapped.data) \div 4) -> BOOLEAN] :
          (mapped.colorize \/ \A p \in DOMAIN ups : ~ups[p]) /\
          mapped' = [done |-> TRUE, data |-> mapped.data,
                     contrast |-> mapped.contrast, intensity |-> mapped.intensity,
                     colorize |-> mapped.colorize,
                     out |-> applyColorMap(mapped.data, mapped.contrast,
                                           mapped.intensity, mapped.colorize, ups)]
    /\ UNCHANGED <<colorImg, depthImg, last, prev, pointCloudData, statusMessage,
                   resized, app, trackerVars, pipeline>>

NextColorMap == ApplyColorMap

SpecColorMap == InitColorMap /\ [][NextColorMap]_vars

\* Pixel p (from 1) of a call's pixels, as <<R, G, B, A>>.
PixelOf(data, p) == <<data[4 * p - 3], data[4 * p - 2], data[4 * p - 1], data[4 * p]>>
MappedPixels == 1..(Len(mapped.data) \div 4)

\* C24: with colorize = false, for every pixel of red value v and every
\* contrast and intensity, the three colour channels written are the byte
\* nearest to clamp(((v - 128) * contrast + 128) * intensity, 0, 255), green
\* and blue of the source are not read, alpha is left as it was, and a gray
\* image mapped with contrast 1 and intensity 1 comes back unchanged.
C24_GrayMap ==
    (mapped.done /\ ~mapped.colorize) =>
        /\ \A p \in MappedPixels :
              LET src == PixelOf(mapped.data, p)
                  out == PixelOf(mapped.out, p)
                  raw == ((src[1] - 128) * mapped.contrast + 256) * mapped.intensity
                  val == IF raw < 0 THEN 0 ELSE IF raw > 1020 THEN 1020 ELSE raw
              IN  /\ out[1] \in 0..255
                  /\ 4 * out[1] - val \in (-2)..2
                  /\ out[2] = out[1]
                  /\ out[3] = out[1]
                  /\ out[4] = src[4]
        /\ (mapped.contrast = 2 /\ mapped.intensity = 2
                /\ \A p \in MappedPixels :
                      LET src == PixelOf(mapped.data, p)
                      IN  src[2] = src[1] /\ src[3] = src[1])
               => mapped.out = mapped.data

\* A coloured, contrast-stretched pixel mapped to a gray value strictly
\* between the clamps, and different from its red value.
C24_Witness ==
    /\ mapped.done
    /\ ~mapped.colorize
    /\ mapped.contrast = 3
    /\ mapped.intensity = 3
    /\ mapped.data[2] # mapped.data[1]
    /\ mapped.out[1] \notin {0, mapped.data[1], 255}
    /\ mapped.out[2] = mapped.out[1]

\* startPipeline failed on the library load or on getUserMedia and no later
\* start has cleared the error.
StartFailed ==
    pipeline.error \in {"Camera unavailable", "MediaPipe library failed to load."}

\* C25: after a failed library load or camera acquisition the tracker shows
\* its error state, holds no camera stream and no Hands instance, and the
\* published signal is not tracking, with rotation (0,0) and the current
\* zoom level as its scale.
C25_StartFailureIsClean ==
    StartFailed =>
        /\ pipeline.held = {}
        /\ pipeline.open = {}
        /\ pipeline.streamRef = 0
        /\ pipeline.handsRef = 0
        /\ published # NoSignal =>
               /\ ~published.isTracking
               /\ published.rotation = NoRotation
               /\ published.scale = zoomLevel

\* ------------------------------------------------ the two hand roles ----
\* The labels of the hands a frame reports.
LabelsOf(name) ==
    LET hd == Results(name).multiHandedness
    IN  {hd[i].label : i \in 1..Len(hd)}

\* The latest call was a frame that reached onUpdate with a result that
\* reports hands of just this one label.
OnlyHand(label) ==
    /\ IsFrame
    /\ frame.sent
    /\ frame.results \in WellFormed
    /\ LabelsOf(frame.results) = {label}

\* The index fingertip of the first hand of the frame, as the handler sees
\* it under the mirror switch of the call.
Fingertip(name, mirrored) ==
    LET tip == Landmark(Results(name).multiHandLandmarks[1], 8)
    IN  IF mirrored THEN [tip EXCEPT !.x = CoordDen - @] ELSE tip

\* The refs of a tracker that has processed no frame.
FreshRefs ==
    [zoomLevel |-> ZoomBaseline, zoomVelocity |-> 0,
     pinchRatioSmoothed |-> Unit \div 2,
     gestures |-> [rotation |-> NoRotation, scale |-> ZoomBaseline,
                   isTracking |-> FALSE],
     trackingState |-> "lost", threw |-> FALSE, sent |-> FALSE]

\* C26: a frame with only a Right hand leaves zoomLevel unchanged and
\* publishes the rotation of that hand's index fingertip; a frame with only a
\* Left hand publishes rotation (0,0) and updates the zoom state; the
\* rotation a frame publishes is the one the same frame would give a tracker
\* that has seen no frame before, under the same sensitivity and mirror
\* switch.
C26_HandRolesIndependent ==
    /\ OnlyHand("Right") =>
           LET tip == Fingertip(frame.results, frame.before.isMirrored)
           IN  /\ zoomLevel = frame.before.zoomLevel
               /\ published.scale = frame.before.zoomLevel
               /\ pinchRatioSmoothed = frame.before.pinchRatioSmoothed
               /\ published.rotation =
                      [x |-> rotationSpeed(tip.y, frame.before.sensitivity),
                       y |-> rotationSpeed(tip.x, frame.before.sensitivity)]
    /\ OnlyHand("Left") =>
           LET zh == Results(frame.results).multiHandLandmarks[1]
               ratio == smoothRatio(frame.before.pinchRatioSmoothed, rawRatio(zh))
           IN  /\ published.rotation = NoRotation
               /\ pinchRatioSmoothed = ratio
               /\ zoomVelocity =
                      blendVelocity(frame.before.zoomVelocity,
                                    targetSpeed(ratio, frame.before.sensitivity))
               /\ zoomLevel = clampZoom(frame.before.zoomLevel + zoomVelocity)
    /\ (IsFrame /\ frame.sent /\ frame.results \in WellFormed) =>
           published.rotation =
               onResults(FreshRefs, Results(frame.results),
                         frame.before.sensitivity, frame.before.isMirrored,
                         FALSE, TRUE).gestures.rotation

\* A frame with only a Right hand arrives while the zoom is moving away from
\* the baseline and the signal before it carried another rotation.
C26_Witness ==
    /\ OnlyHand("Right")
    /\ frame.before.zoomVelocity # 0
    /\ frame.before.zoomLevel # ZoomBaseline
    /\ zoomLevel = frame.before.zoomLevel
    /\ published.rotation # NoRotation
    /\ frame.before.gestures.rotation # published.rotation

\* C28: resizeImage of a source image whose width and height are both
\* positive, with maxSize >= 1, returns a canvas whose width and height are
\* both at least 1.
C28_ResizeKeepsPositiveSides ==
    (resized.done /\ colorImg.width >= 1 /\ colorImg.height >= 1
                  /\ resized.maxSize >= 1)
        => /\ resized.canvas.width >= 1
           /\ resized.canvas.height >= 1

\* ------------------------------------------- builds and source changes ----
\* The calls of SpecBuilds together with uploads of a new source image and
\* the Clear button.
NextSources ==
    \/ \E pair \in ImportedPairs, mode \in ViewModes \cup {"absent"} :
          handleImportFile(pair, mode)
    \/ \E img \in UploadedImages : handleImageUpload(img)
    \/ clearSource
    \/ \E mode \in ViewModes : switchMode(mode)
    \/ \E v \in VoxelResolutions : SetVoxelResolution(v)
    \/ TimerFires
    \/ \E d \in Densities : commitDensityChange(d)
    \/ \E r \in app.loading : BuildCompletes(r)

SpecSources == InitBuilds /\ [][NextSources]_vars

\* The images the application holds.
HeldImages == <<[color |-> colorImg, depth |-> depthImg]>>

\* C29: in every reachable state a published point cloud was built from the
\* source images the application holds: after a clear or an upload no cloud
\* is published until a build for the new images completes.
C29_CloudFromHeldImages ==
    pointCloudData.ok =>
        /\ app.original
        /\ app.images
        /\ app.source = HeldImages

\* ------------------------------------------------- processGeneration ----
\* The number of callbacks of the progress interval followed.
MaxTicks == 2

\* The depth maps generateDepthMap can return.
DepthResults == {pair.depth : pair \in ImportedPairs}

Running(pc) == app.run # << >> /\ app.run[1].pc = pc

\* processGeneration from the Generate button to its await of
\* generateDepthMap: without an API key only the status changes; with one
\* the progress is set to 5, the interval started and isGenerating set.
processGeneration(hasKey) ==
    /\ app.original
    /\ ~app.isGenerating
    /\ ~pointCloudData.ok
    /\ IF hasKey
       THEN /\ statusMessage' = "Generating depth"
            /\ app' = [app EXCEPT
                          !.progress = 5 * ProgressDen,
                          !.progressInterval = TRUE,
                          !.isGenerating = TRUE,
                          !.run = <<[pc |-> "depth",
                                     closure |-> Closure(app, colorImg, depthImg)]>>]
       ELSE /\ statusMessage' = "Missing API Key"
            /\ app' = app
    /\ UNCHANGED <<colorImg, depthImg, last, prev, pointCloudData, resized, mapped,
                   trackerVars, pipeline>>

\* The callback of the progress interval, with Math.random() = rand.
ProgressTick(rand) ==
    /\ app.progressInterval
    /\ app.ticks < MaxTicks
    /\ LET prevProgress == app.progress
           incHalves == IF prevProgress < 50 * ProgressDen THEN 10
                        ELSE IF prevProgress < 70 * ProgressDen THEN 4 ELSE 1
       IN  AppStep([app EXCEPT
                       !.ticks = @ + 1,
                       !.progress = IF prevProgress >= 85 * ProgressDen THEN prevProgress
                                    ELSE prevProgress + rand * incHalves])

\* generateDepthMap rejects (denied: the message names 403 or
\* PERMISSION_DENIED) or returns no image: the catch block sets the status
\* and progress 0, the finally block ends the run.
DepthFails(denied) ==
    /\ Running("depth")
    /\ statusMessage' = IF denied THEN "Access Denied. Check API Key."
                        ELSE "Error: Failed to generate depth map"
    /\ app' = [app EXCEPT !.progress = 0,
                          !.progressInterval = FALSE,
                          !.isGenerating = FALSE,
                          !.run = <<[pc |-> "done", status |-> statusMessage',
                                     built |-> FALSE, failed |-> "depth"]>>]
    /\ UNCHANGED <<colorImg, depthImg, last, prev, pointCloudData, resized, mapped,
                   trackerVars, pipeline>>

\* generateDepthMap returns a depth map: progress 90, the depth image is
\* set, and build3DModel is called from the closure of the render that
\* started the run.
DepthReady(depth) ==
    /\ Running("depth")
    /\ app.issued < MaxBuilds
    /\ statusMessage' = "Depth ready"
    /\ depthImg' = depth
    /\ LET c == app.run[1].closure
           a == [app EXCEPT !.progress = 90 * ProgressDen,
                            !.images = app.original,
                            !.run = <<[pc |-> "build"]>>]
       IN  app' = build3DModel(a, c.colorSrc, depth, c, "generate")
    /\ UNCHANGED <<colorImg, last, prev, pointCloudData, resized, mapped,
                   trackerVars, pipeline>>

\* One of the image loads of the call r rejects: the catch block of
\* build3DModel sets the status and the call returns to its caller.
BuildLoadFails(r) ==
    /\ statusMessage' =
           IF r.through = "import" THEN "Cloud imported successfully."
           ELSE IF r.through = "generate" THEN "Generated with"
           ELSE "Error building model."
    /\ app' = [generationReturns(app, r, FALSE, "load") EXCEPT !.loading = @ \ {r}]
    /\ UNCHANGED <<colorImg, depthImg, last, prev, pointCloudData, resized, mapped,
                   trackerVars, pipeline>>

NextGenerate ==
    \/ \E img \in UploadedImages : handleImageUpload(img)
    \/ \E hasKey \in BOOLEAN : processGeneration(hasKey)
    \/ \E rand \in RandVals : ProgressTick(rand)
    \/ \E denied \in BOOLEAN : DepthFails(denied)
    \/ \E depth \in DepthResults : DepthReady(depth)
    \/ \E r \in app.loading : BuildCompletes(r)
    \/ \E r \in app.loading : BuildLoadFails(r)

SpecGenerate == InitBuilds /\ [][NextGenerate]_vars

\* The latest run of processGeneration has finished.
RunDone == Running("done")

\* C30: a finished run of processGeneration shows progress 100 and the
\* status 'Generated with ...' only if its build published a cloud; a run
\* whose build3DModel failed to load the images or to reconstruct ends with
\* progress 0 and an error status; and every finished run leaves
\* isGenerating false and the progress interval cleared.
C30_SuccessOnlyWhenBuilt ==
    RunDone =>
        /\ ~app.isGenerating
        /\ ~app.progressInterval
        /\ (app.progress = 100 * ProgressDen /\ app.run[1].status = "Generated with")
               => app.run[1].built
        /\ app.run[1].failed \in {"load", "reconstruct"}
               => /\ app.progress = 0
                  /\ app.run[1].status # "Generated with"

\* ------------------------------------------------------- the mirror ----
\* The latest call was a frame with hands that reached onUpdate.
HandsFrame ==
    /\ IsFrame
    /\ frame.sent
    /\ frame.results \in WellFormed
    /\ hasHands(Results(frame.results))

\* The refs the latest call found.
RefsBefore ==
    [zoomLevel |-> frame.before.zoomLevel,
     zoomVelocity |-> frame.before.zoomVelocity,
     pinchRatioSmoothed |-> frame.before.pinchRatioSmoothed,
     gestures |-> frame.before.gestures,
     trackingState |-> "lost", threw |-> FALSE, sent |-> FALSE]

\* What the latest frame gives from the same refs with the mirror switch in
\* the other position.
OtherMirror ==
    onResults(RefsBefore, Results(frame.results), frame.before.sensitivity,
              ~frame.before.isMirrored, FALSE, TRUE)

\* C27: under the mirror switch every landmark's x is read as 1 - x; for the
\* same frame and the same prior state the other position of the switch
\* negates rotation.y, keeps rotation.x, and keeps handSize, pinchDistance,
\* the smoothed ratio, the zoom velocity and zoomLevel.
C27_MirrorNegatesHorizontal ==
    HandsFrame =>
        /\ OtherMirror.gestures.rotation.y = -published.rotation.y
        /\ OtherMirror.gestures.rotation.x = published.rotation.x
        /\ OtherMirror.pinchRatioSmoothed = pinchRatioSmoothed
        /\ OtherMirror.zoomVelocity = zoomVelocity
        /\ OtherMirror.zoomLevel = zoomLevel
        /\ OtherMirror.gestures.scale = published.scale
        /\ \A label \in {"Right", "Left"} :
               LET plain == handOf(Results(frame.results), label, FALSE)
                   flipped == handOf(Results(frame.results), label, TRUE)
               IN  plain # Undefined =>
                       /\ handSize(flipped[1]) = handSize(plain[1])
                       /\ pinchDist(flipped[1]) = pinchDist(plain[1])
                       /\ \A i \in DOMAIN plain[1] :
                              /\ flipped[1][i].x = CoordDen - plain[1][i].x
                              /\ flipped[1][i].y = plain[1][i].y

\* A frame with a rotate hand off the vertical centre line and a zoom hand
\* that moves the zoom, processed with the mirror switched off.
C27_Witness ==
    /\ HandsFrame
    /\ ~frame.before.isMirrored
    /\ published.rotation.y # 0
    /\ published.rotation.x # 0
    /\ zoomLevel # frame.before.zoomLevel

====
